---- MODULE Spec2Model ----
(***************************************************************************)
(* The domain-dependent planner for the IPC 2023 Rover problem: the state  *)
(* model and its ten actions (auxiliary.h), the heuristic (heuristic.h),   *)
(* the min-heap frontier (minheap.h), the closed set, the successor        *)
(* generator and the search driver (planner.c), the plan extraction and    *)
(* the solution writer (solution.h) and the plan verifier                  *)
(* (rover_verify.c).                                                       *)
(*                                                                         *)
(* C arrays are functions over 0..n-1, bitmaps are sets of bit positions,  *)
(* C flags stay the integers 0 and 1.  A C parameter array params[0..k-1]  *)
(* is the tuple <<params[0], ..., params[k-1]>>.                           *)
(***************************************************************************)
EXTENDS Integers, Sequences, FiniteSets, TLC

\* ---------------------------------------------------------------------
\* Program constants
\* ---------------------------------------------------------------------
MAX_ROVERS == 10
MAX_WAYPOINTS == 30
MAX_CAMERAS == 10
MAX_OBJECTIVES == 10
MAX_STORES == 10
MAX_MODES == 3
INT_MAX == 100000
best == 1
astar == 2

VARIABLES
    num_rovers, num_waypoints, num_cameras, num_stores, num_objectives, num_modes,
    goal,            \* the global Goal record filled by the parser
    initial_state,   \* the State returned by parse_pddl_file
    method,          \* best or astar
    dist,            \* dist[rover][from][to], filled by precompute_shortest_paths
    nodes,           \* every tree_node whose action applied, in creation order
    frontier,        \* the MinHeap's nodeArray[0..nodeSize-1]
    state_set,       \* the closed set of StateKeys
    pc,              \* where the planner process is
    solution_node,   \* what search returned (index into nodes, 0 = NULL)
    solution_length, total_recharges, total_energy, solution,
    exit_code,       \* the planner's exit code, -2 while it runs
    solution_file,   \* the lines written to the solution file
    total_extracts,  \* statistic of search
    vstate, vnext, vline, vexit,  \* the verifier: *state, next_state, line_num, exit code
    vcost,           \* the sum of the energy_spent values the verifier's calls returned
    earlier_run,     \* the runs of the planner that ended before this one, and
                     \* the solution file as the last of them left it
    heap_history     \* the entries handed to insert_node and the entries that
                     \* extract_min returned, in call order, with the number
                     \* of insert_node calls that came before each
                     \* extract_min, for a caller that uses the MinHeap on
                     \* its own
VARIABLES
    store_of         \* the (store_of s r) facts of the problem file's :init
                     \* section, in file order, as pairs <<store, rover>>

pvars == <<num_rovers, num_waypoints, num_cameras, num_stores, num_objectives,
           num_modes, goal, initial_state, method>>
svars == <<dist, nodes, frontier, state_set, solution_node, total_extracts>>
ovars == <<solution_length, total_recharges, total_energy, solution, exit_code,
           solution_file>>
vvars == <<vstate, vnext, vline, vexit, vcost>>
hvars == <<earlier_run, heap_history, store_of>>
vars == <<pvars, svars, ovars, vvars, hvars, pc>>

\* ---------------------------------------------------------------------
\* Small helpers
\* ---------------------------------------------------------------------
Idx(n) == 0 .. (n - 1)

\* bitmap & (1 << i)
Bit(bitmap, i) == i \in bitmap

\* ---------------------------------------------------------------------
\* auxiliary.h : apply_action
\* ---------------------------------------------------------------------
\* The result of a call: the return value, the caller's buffer `next`
\* after the call and *energy_spent.  The buffer is overwritten with a copy
\* of `current` before any precondition is looked at.
Refused(current) == [ret |-> 0, next |-> current, energy_spent |-> 0]

Applied(next, energy_spent) == [ret |-> 1, next |-> next, energy_spent |-> energy_spent]

\* navigate as it would be without the test of the rover's energy.
navigate_unchecked(current, params) ==
    LET rover == params[1]
        from == params[2]
        to == params[3]
    IN  IF \/ current.rovers[rover].available = 0
           \/ ~Bit(current.waypoints[from].visible_waypoints, to)
           \/ <<from, to>> \notin current.rovers[rover].can_traverse
           \/ current.rovers[rover].position # from
           \/ from = to
        THEN Refused(current)
        ELSE Applied([current EXCEPT !.rovers[rover].position = to,
                                     !.rovers[rover].energy = @ - 8], 8)

\* navigate as it would be without the test of can_traverse.
navigate_untraversed(current, params) ==
    LET rover == params[1]
        from == params[2]
        to == params[3]
    IN  IF \/ current.rovers[rover].available = 0
           \/ current.rovers[rover].energy < 8
           \/ ~Bit(current.waypoints[from].visible_waypoints, to)
           \/ current.rovers[rover].position # from
           \/ from = to
        THEN Refused(current)
        ELSE Applied([current EXCEPT !.rovers[rover].position = to,
                                     !.rovers[rover].energy = @ - 8], 8)

navigate(current, params) ==
    LET rover == params[1]
        from == params[2]
        to == params[3]
    IN  IF \/ current.rovers[rover].available = 0
           \/ current.rovers[rover].energy < 8
           \/ ~Bit(current.waypoints[from].visible_waypoints, to)
           \/ <<from, to>> \notin current.rovers[rover].can_traverse
           \/ current.rovers[rover].position # from
           \/ from = to
        THEN Refused(current)
        ELSE Applied([current EXCEPT !.rovers[rover].position = to,
                                     !.rovers[rover].energy = @ - 8], 8)

\* recharge as it would be without the count of the recharges.
recharge_uncounted(current, params) ==
    LET rover == params[1]
        waypoint == params[2]
    IN  IF \/ current.waypoints[waypoint].in_sun = 0
           \/ current.rovers[rover].position # waypoint
           \/ current.rovers[rover].energy >= 8
        THEN Refused(current)
        ELSE Applied([current EXCEPT !.rovers[rover].energy = @ + 20], 0)

\* recharge that reports the 20 units it adds as energy spent.
recharge_reports_cost(current, params) ==
    LET rover == params[1]
        waypoint == params[2]
    IN  IF \/ current.waypoints[waypoint].in_sun = 0
           \/ current.rovers[rover].position # waypoint
           \/ current.rovers[rover].energy >= 8
        THEN Refused(current)
        ELSE Applied([current EXCEPT !.rovers[rover].energy = @ + 20,
                                     !.recharges = @ + 1], 20)

recharge(current, params) ==
    LET rover == params[1]
        waypoint == params[2]
    IN  IF \/ current.waypoints[waypoint].in_sun = 0
           \/ current.rovers[rover].position # waypoint
           \/ current.rovers[rover].energy >= 8
        THEN Refused(current)
        ELSE Applied([current EXCEPT !.rovers[rover].energy = @ + 20,
                                     !.recharges = @ + 1], 0)

\* sample_soil as it would be without the test of the store's owner.
sample_soil_any_store(current, params) ==
    LET rover == params[1]
        store == params[2]
        waypoint == params[3]
    IN  IF \/ current.rovers[rover].position # waypoint
           \/ current.rovers[rover].energy < 3
           \/ current.waypoints[waypoint].has_soil_sample = 0
           \/ current.rovers[rover].equipped_soil = 0
           \/ current.stores[store].is_full # 0
           \/ waypoint \notin goal.communicated_soil_data
           \/ current.waypoints[waypoint].communicated_soil # 0
        THEN Refused(current)
        ELSE Applied([current EXCEPT !.stores[store].is_full = 1,
                                     !.rovers[rover].energy = @ - 3,
                                     !.rovers[rover].has_soil_analysis = @ \cup {waypoint},
                                     !.waypoints[waypoint].has_soil_sample = 0], 3)

sample_soil(current, params) ==
    LET rover == params[1]
        store == params[2]
        waypoint == params[3]
    IN  IF \/ current.rovers[rover].position # waypoint
           \/ current.rovers[rover].energy < 3
           \/ current.waypoints[waypoint].has_soil_sample = 0
           \/ current.rovers[rover].equipped_soil = 0
           \/ current.stores[store].rover_id # rover
           \/ current.stores[store].is_full # 0
           \/ waypoint \notin goal.communicated_soil_data
           \/ current.waypoints[waypoint].communicated_soil # 0
        THEN Refused(current)
        ELSE Applied([current EXCEPT !.stores[store].is_full = 1,
                                     !.rovers[rover].energy = @ - 3,
                                     !.rovers[rover].has_soil_analysis = @ \cup {waypoint},
                                     !.waypoints[waypoint].has_soil_sample = 0], 3)

sample_rock(current, params) ==
    LET rover == params[1]
        store == params[2]
        waypoint == params[3]
    IN  IF \/ current.rovers[rover].position # waypoint
           \/ current.rovers[rover].energy < 5
           \/ current.waypoints[waypoint].has_rock_sample = 0
           \/ current.rovers[rover].equipped_rock = 0
           \/ current.stores[store].rover_id # rover
           \/ current.stores[store].is_full # 0
           \/ waypoint \notin goal.communicated_rock_data
           \/ current.waypoints[waypoint].communicated_rock # 0
        THEN Refused(current)
        ELSE Applied([current EXCEPT !.stores[store].is_full = 1,
                                     !.rovers[rover].energy = @ - 5,
                                     !.rovers[rover].has_rock_analysis = @ \cup {waypoint},
                                     !.waypoints[waypoint].has_rock_sample = 0], 5)

drop(current, params) ==
    LET rover == params[1]
        store == params[2]
    IN  IF \/ current.stores[store].rover_id # rover
           \/ current.stores[store].is_full = 0
        THEN Refused(current)
        ELSE Applied([current EXCEPT !.stores[store].is_full = 0], 0)

calibrate(current, params) ==
    LET rover == params[1]
        camera == params[2]
        objective == params[3]
        waypoint == params[4]
    IN  IF \/ current.rovers[rover].equipped_imaging = 0
           \/ current.rovers[rover].energy < 2
           \/ ~Bit(current.cameras[camera].calibration_targets, objective)
           \/ current.rovers[rover].position # waypoint
           \/ ~Bit(current.objectives[objective].visible_waypoints, waypoint)
           \/ current.cameras[camera].rover_id # rover
        THEN Refused(current)
        ELSE Applied([current EXCEPT !.rovers[rover].energy = @ - 2,
                                     !.cameras[camera].calibrated = 1], 2)

\* take_image without the test of the camera's calibrated flag.
take_image_uncalibrated(current, params) ==
    LET rover == params[1]
        waypoint == params[2]
        objective == params[3]
        camera == params[4]
        mode == params[5]
    IN  IF \/ current.cameras[camera].rover_id # rover
           \/ current.rovers[rover].equipped_imaging = 0
           \/ ~Bit(current.cameras[camera].modes_supported, mode)
           \/ ~Bit(current.objectives[objective].visible_waypoints, waypoint)
           \/ current.rovers[rover].position # waypoint
           \/ current.rovers[rover].energy < 1
           \/ <<objective, mode>> \notin goal.communicated_image_data
           \/ Bit(current.objectives[objective].communicated_image, mode)
        THEN Refused(current)
        ELSE Applied([current EXCEPT !.rovers[rover].have_image = @ \cup {<<objective, mode>>},
                                     !.cameras[camera].calibrated = 0,
                                     !.rovers[rover].energy = @ - 1], 1)

take_image(current, params) ==
    LET rover == params[1]
        waypoint == params[2]
        objective == params[3]
        camera == params[4]
        mode == params[5]
    IN  IF \/ current.cameras[camera].calibrated = 0
           \/ current.cameras[camera].rover_id # rover
           \/ current.rovers[rover].equipped_imaging = 0
           \/ ~Bit(current.cameras[camera].modes_supported, mode)
           \/ ~Bit(current.objectives[objective].visible_waypoints, waypoint)
           \/ current.rovers[rover].position # waypoint
           \/ current.rovers[rover].energy < 1
           \/ <<objective, mode>> \notin goal.communicated_image_data
           \/ Bit(current.objectives[objective].communicated_image, mode)
        THEN Refused(current)
        ELSE Applied([current EXCEPT !.rovers[rover].have_image = @ \cup {<<objective, mode>>},
                                     !.cameras[camera].calibrated = 0,
                                     !.rovers[rover].energy = @ - 1], 1)

\* communicate_soil_data without the test of the rover's availability.
communicate_soil_data_unavailable(current, params) ==
    LET rover == params[1]
        sample_waypoint == params[2]
        rover_waypoint == params[3]
        lander_waypoint == params[4]
    IN  IF \/ current.rovers[rover].position # rover_waypoint
           \/ current.lander.lander_position # lander_waypoint
           \/ ~Bit(current.rovers[rover].has_soil_analysis, sample_waypoint)
           \/ ~Bit(current.waypoints[rover_waypoint].visible_waypoints, lander_waypoint)
           \/ current.lander.channel_free = 0
           \/ current.rovers[rover].energy < 4
           \/ sample_waypoint \notin goal.communicated_soil_data
           \/ current.waypoints[sample_waypoint].communicated_soil # 0
        THEN Refused(current)
        ELSE Applied([current EXCEPT !.waypoints[sample_waypoint].communicated_soil = 1,
                                     !.rovers[rover].energy = @ - 4], 4)

\* communicate_soil_data that leaves the lander's channel taken.
communicate_soil_data_channel_taken(current, params) ==
    LET rover == params[1]
        sample_waypoint == params[2]
        rover_waypoint == params[3]
        lander_waypoint == params[4]
    IN  IF \/ current.rovers[rover].position # rover_waypoint
           \/ current.lander.lander_position # lander_waypoint
           \/ ~Bit(current.rovers[rover].has_soil_analysis, sample_waypoint)
           \/ ~Bit(current.waypoints[rover_waypoint].visible_waypoints, lander_waypoint)
           \/ current.rovers[rover].available = 0
           \/ current.lander.channel_free = 0
           \/ current.rovers[rover].energy < 4
           \/ sample_waypoint \notin goal.communicated_soil_data
           \/ current.waypoints[sample_waypoint].communicated_soil # 0
        THEN Refused(current)
        ELSE Applied([current EXCEPT !.waypoints[sample_waypoint].communicated_soil = 1,
                                     !.lander.channel_free = 0,
                                     !.rovers[rover].energy = @ - 4], 4)

communicate_soil_data(current, params) ==
    LET rover == params[1]
        sample_waypoint == params[2]
        rover_waypoint == params[3]
        lander_waypoint == params[4]
    IN  IF \/ current.rovers[rover].position # rover_waypoint
           \/ current.lander.lander_position # lander_waypoint
           \/ ~Bit(current.rovers[rover].has_soil_analysis, sample_waypoint)
           \/ ~Bit(current.waypoints[rover_waypoint].visible_waypoints, lander_waypoint)
           \/ current.rovers[rover].available = 0
           \/ current.lander.channel_free = 0
           \/ current.rovers[rover].energy < 4
           \/ sample_waypoint \notin goal.communicated_soil_data
           \/ current.waypoints[sample_waypoint].communicated_soil # 0
        THEN Refused(current)
        ELSE Applied([current EXCEPT !.waypoints[sample_waypoint].communicated_soil = 1,
                                     !.rovers[rover].energy = @ - 4], 4)

communicate_rock_data(current, params) ==
    LET rover == params[1]
        sample_waypoint == params[2]
        rover_waypoint == params[3]
        lander_waypoint == params[4]
    IN  IF \/ current.rovers[rover].position # rover_waypoint
           \/ current.lander.lander_position # lander_waypoint
           \/ ~Bit(current.rovers[rover].has_rock_analysis, sample_waypoint)
           \/ ~Bit(current.waypoints[rover_waypoint].visible_waypoints, lander_waypoint)
           \/ current.rovers[rover].available = 0
           \/ current.lander.channel_free = 0
           \/ current.rovers[rover].energy < 4
           \/ sample_waypoint \notin goal.communicated_rock_data
           \/ current.waypoints[sample_waypoint].communicated_rock # 0
        THEN Refused(current)
        ELSE Applied([current EXCEPT !.waypoints[sample_waypoint].communicated_rock = 1,
                                     !.rovers[rover].energy = @ - 4], 4)

communicate_image_data(current, params) ==
    LET rover == params[1]
        objective == params[2]
        mode == params[3]
        rover_waypoint == params[4]
        lander_waypoint == params[5]
    IN  IF \/ current.rovers[rover].position # rover_waypoint
           \/ current.lander.lander_position # lander_waypoint
           \/ <<objective, mode>> \notin current.rovers[rover].have_image
           \/ ~Bit(current.waypoints[rover_waypoint].visible_waypoints, lander_waypoint)
           \/ current.rovers[rover].available = 0
           \/ current.lander.channel_free = 0
           \/ current.rovers[rover].energy < 6
           \/ <<objective, mode>> \notin goal.communicated_image_data
           \/ Bit(current.objectives[objective].communicated_image, mode)
        THEN Refused(current)
        ELSE Applied([current EXCEPT !.objectives[objective].communicated_image = @ \cup {mode},
                                     !.rovers[rover].energy = @ - 6], 6)

apply_action(current, action_type, params) ==
    CASE action_type = 0 -> navigate(current, params)
      [] action_type = 1 -> recharge(current, params)
      [] action_type = 2 -> sample_soil(current, params)
      [] action_type = 3 -> sample_rock(current, params)
      [] action_type = 4 -> drop(current, params)
      [] action_type = 5 -> calibrate(current, params)
      [] action_type = 6 -> take_image(current, params)
      [] action_type = 7 -> communicate_soil_data(current, params)
      [] action_type = 8 -> communicate_rock_data(current, params)
      [] OTHER -> communicate_image_data(current, params)

\* ---------------------------------------------------------------------
\* auxiliary.h : is_solution
\* ---------------------------------------------------------------------
\* is_solution as it would be when it answered with a flag that the first
\* communicated goal sets.
is_solution_some_goal(nodeState) ==
    /\ \A wp \in Idx(num_waypoints) :
          wp \in goal.communicated_soil_data => nodeState.waypoints[wp].communicated_soil # 0
    /\ \A wp \in Idx(num_waypoints) :
          wp \in goal.communicated_rock_data => nodeState.waypoints[wp].communicated_rock # 0
    /\ \A o \in Idx(num_objectives) : \A m \in Idx(num_modes) :
          <<o, m>> \in goal.communicated_image_data =>
              Bit(nodeState.objectives[o].communicated_image, m)
    /\ \/ \E wp \in Idx(num_waypoints) : wp \in goal.communicated_soil_data
       \/ \E wp \in Idx(num_waypoints) : wp \in goal.communicated_rock_data
       \/ \E o \in Idx(num_objectives) : \E m \in Idx(num_modes) :
             <<o, m>> \in goal.communicated_image_data

is_solution(nodeState) ==
    /\ \A wp \in Idx(num_waypoints) :
          wp \in goal.communicated_soil_data => nodeState.waypoints[wp].communicated_soil # 0
    /\ \A wp \in Idx(num_waypoints) :
          wp \in goal.communicated_rock_data => nodeState.waypoints[wp].communicated_rock # 0
    /\ \A o \in Idx(num_objectives) : \A m \in Idx(num_modes) :
          <<o, m>> \in goal.communicated_image_data =>
              Bit(nodeState.objectives[o].communicated_image, m)

\* ---------------------------------------------------------------------
\* heuristic.h
\* ---------------------------------------------------------------------
\* f[0] \o f[1] \o ... \o f[n-1]: the order in which a C loop appends.
RECURSIVE Cat(_, _)
Cat(f, n) == IF n = 0 THEN <<>> ELSE Cat(f, n - 1) \o f[n - 1]

\* One relaxation of the Floyd-Warshall triple loop, on one rover's table.
\* The relaxation step as it would be with waypoint 0 as the only
\* intermediate waypoint.
FWStep_through_first(d, k, i, j) ==
    IF k = 0 /\ d[i][k] # INT_MAX /\ d[k][j] # INT_MAX /\ d[i][k] + d[k][j] < d[i][j]
    THEN [d EXCEPT ![i][j] = d[i][k] + d[k][j]]
    ELSE d

FWStep(d, k, i, j) ==
    IF d[i][k] # INT_MAX /\ d[k][j] # INT_MAX /\ d[i][k] + d[k][j] < d[i][j]
    THEN [d EXCEPT ![i][j] = d[i][k] + d[k][j]]
    ELSE d

\* The k, i, j loops, t counting the iterations done so far.
RECURSIVE FWLoop(_, _, _)
FWLoop(d, t, n) ==
    IF t = n * n * n THEN d
    ELSE FWLoop(FWStep(d, t \div (n * n), (t \div n) % n, t % n), t + 1, n)

precompute_shortest_paths(nodeState) ==
    [rover \in Idx(num_rovers) |->
        FWLoop([i \in Idx(num_waypoints) |-> [j \in Idx(num_waypoints) |->
                   IF i = j THEN 0
                   ELSE IF /\ <<i, j>> \in nodeState.rovers[rover].can_traverse
                           /\ Bit(nodeState.waypoints[i].visible_waypoints, j)
                        THEN 8
                        ELSE INT_MAX]],
               0, num_waypoints)]

\* The scan of find_nearest_comm_point from waypoint wp on, with the
\* running min_dist and best_wp.
\* The scan that keeps the first waypoint within reach that sees the lander.
RECURSIVE NearestScan_first(_, _, _, _, _, _, _)
NearestScan_first(d, rover, from_wp, state, wp, min_dist, best_wp) ==
    IF wp = num_waypoints THEN best_wp
    ELSE IF ~Bit(state.waypoints[wp].visible_waypoints, state.lander.lander_position)
         THEN NearestScan_first(d, rover, from_wp, state, wp + 1, min_dist, best_wp)
         ELSE IF best_wp = -1 /\ d[rover][from_wp][wp] < min_dist
              THEN NearestScan_first(d, rover, from_wp, state, wp + 1,
                                     d[rover][from_wp][wp], wp)
              ELSE NearestScan_first(d, rover, from_wp, state, wp + 1, min_dist, best_wp)

RECURSIVE NearestScan(_, _, _, _, _, _, _)
NearestScan(d, rover, from_wp, state, wp, min_dist, best_wp) ==
    IF wp = num_waypoints THEN best_wp
    ELSE IF ~Bit(state.waypoints[wp].visible_waypoints, state.lander.lander_position)
         THEN NearestScan(d, rover, from_wp, state, wp + 1, min_dist, best_wp)
         ELSE IF d[rover][from_wp][wp] < min_dist
              THEN NearestScan(d, rover, from_wp, state, wp + 1, d[rover][from_wp][wp], wp)
              ELSE NearestScan(d, rover, from_wp, state, wp + 1, min_dist, best_wp)

find_nearest_comm_point(d, rover, from_wp, state) ==
    IF Bit(state.waypoints[from_wp].visible_waypoints, state.lander.lander_position)
    THEN from_wp
    ELSE NearestScan(d, rover, from_wp, state, 0, INT_MAX, -1)

\* current_rover_cost of rover r for the soil goal at wp.
SoilCost(d, state, wp, r) ==
    LET pos == state.rovers[r].position
    IN  IF Bit(state.rovers[r].has_soil_analysis, wp)
        THEN LET comm_point == find_nearest_comm_point(d, r, pos, state)
             IN  IF comm_point # -1 THEN d[r][pos][comm_point] + 4 ELSE INT_MAX
        ELSE IF state.rovers[r].equipped_soil # 0 /\ state.waypoints[wp].has_soil_sample # 0
             THEN LET travel_to_sample == d[r][pos][wp]
                  IN  IF travel_to_sample # INT_MAX
                      THEN LET comm_point == find_nearest_comm_point(d, r, wp, state)
                           IN  IF comm_point # -1
                               THEN travel_to_sample + 3 + d[r][wp][comm_point] + 4
                               ELSE INT_MAX
                      ELSE INT_MAX
             ELSE INT_MAX

\* current_rover_cost of rover r for the rock goal at wp.
RockCost(d, state, wp, r) ==
    LET pos == state.rovers[r].position
    IN  IF Bit(state.rovers[r].has_rock_analysis, wp)
        THEN LET comm_point == find_nearest_comm_point(d, r, pos, state)
             IN  IF comm_point # -1 THEN d[r][pos][comm_point] + 4 ELSE INT_MAX
        ELSE IF state.rovers[r].equipped_rock # 0 /\ state.waypoints[wp].has_rock_sample # 0
             THEN LET travel_to_sample == d[r][pos][wp]
                  IN  IF travel_to_sample # INT_MAX
                      THEN LET comm_point == find_nearest_comm_point(d, r, wp, state)
                           IN  IF comm_point # -1
                               THEN travel_to_sample + 5 + d[r][wp][comm_point] + 4
                               ELSE INT_MAX
                      ELSE INT_MAX
             ELSE INT_MAX

\* The shoot_wp loop of the image branch, with the running best_shoot_cost.
RECURSIVE ShootScan(_, _, _, _, _, _)
ShootScan(d, state, obj, r, shoot_wp, best_shoot_cost) ==
    IF shoot_wp = num_waypoints THEN best_shoot_cost
    ELSE LET travel_cost == d[r][state.rovers[r].position][shoot_wp]
             comm_point == find_nearest_comm_point(d, r, shoot_wp, state)
             total == travel_cost + 2 + 1 + d[r][shoot_wp][comm_point] + 6
         IN  IF \/ ~Bit(state.objectives[obj].visible_waypoints, shoot_wp)
                \/ travel_cost = INT_MAX
                \/ comm_point = -1
             THEN ShootScan(d, state, obj, r, shoot_wp + 1, best_shoot_cost)
             ELSE ShootScan(d, state, obj, r, shoot_wp + 1,
                            IF total < best_shoot_cost THEN total ELSE best_shoot_cost)

\* current_rover_cost of rover r for the image goal (obj, mode).
ImageCost(d, state, obj, mode, r) ==
    LET pos == state.rovers[r].position
        has_camera == \E c \in Idx(num_cameras) :
                          /\ state.cameras[c].rover_id = r
                          /\ Bit(state.cameras[c].modes_supported, mode)
    IN  IF <<obj, mode>> \in state.rovers[r].have_image
        THEN LET comm_point == find_nearest_comm_point(d, r, pos, state)
             IN  IF comm_point # -1 THEN d[r][pos][comm_point] + 6 ELSE INT_MAX
        ELSE IF state.rovers[r].equipped_imaging # 0 /\ has_camera
             THEN ShootScan(d, state, obj, r, 0, INT_MAX)
             ELSE INT_MAX

\* The GoalCost entry appended for (cost, r), if any.
Entry(cost, r) == IF cost # INT_MAX THEN <<[cost |-> cost, rover_id |-> r]>> ELSE <<>>

\* costs[0..count-1] as calculate_all_goal_costs fills it.
calculate_all_goal_costs(d, state) ==
    LET soil == [wp \in Idx(num_waypoints) |->
                    IF wp \notin goal.communicated_soil_data
                       \/ state.waypoints[wp].communicated_soil # 0
                    THEN <<>>
                    ELSE Cat([r \in Idx(num_rovers) |-> Entry(SoilCost(d, state, wp, r), r)],
                             num_rovers)]
        rock == [wp \in Idx(num_waypoints) |->
                    IF wp \notin goal.communicated_rock_data
                       \/ state.waypoints[wp].communicated_rock # 0
                    THEN <<>>
                    ELSE Cat([r \in Idx(num_rovers) |-> Entry(RockCost(d, state, wp, r), r)],
                             num_rovers)]
        image == [om \in Idx(num_objectives * num_modes) |->
                     LET obj == om \div num_modes
                         mode == om % num_modes
                     IN  IF <<obj, mode>> \notin goal.communicated_image_data
                            \/ Bit(state.objectives[obj].communicated_image, mode)
                         THEN <<>>
                         ELSE Cat([r \in Idx(num_rovers) |->
                                      Entry(ImageCost(d, state, obj, mode, r), r)],
                                  num_rovers)]
    IN  Cat(soil, num_waypoints) \o Cat(rock, num_waypoints)
            \o Cat(image, num_objectives * num_modes)

\* The scan for the nearest in-sun waypoint, with the running min_recharge_dist.
RECURSIVE SunScan(_, _, _, _, _)
SunScan(d, state, r, wp, min_recharge_dist) ==
    IF wp = num_waypoints THEN min_recharge_dist
    ELSE LET dd == d[r][state.rovers[r].position][wp]
         IN  IF state.waypoints[wp].in_sun # 0 /\ dd < min_recharge_dist
             THEN SunScan(d, state, r, wp + 1, dd)
             ELSE SunScan(d, state, r, wp + 1, min_recharge_dist)

\* The rover loop without the test work_cost > available_energy.
RECURSIVE EnergyScan_no_deficit_test(_, _, _, _, _)
EnergyScan_no_deficit_test(d, state, assigned_costs, r, total_recharge_cost) ==
    IF r = num_rovers THEN total_recharge_cost
    ELSE IF assigned_costs[r] = 0
         THEN EnergyScan_no_deficit_test(d, state, assigned_costs, r + 1, total_recharge_cost)
         ELSE LET min_recharge_dist == SunScan(d, state, r, 0, INT_MAX)
              IN  IF min_recharge_dist # INT_MAX
                  THEN EnergyScan_no_deficit_test(d, state, assigned_costs, r + 1,
                                                  total_recharge_cost + min_recharge_dist)
                  ELSE INT_MAX

\* The rover loop of calculate_energy_cost_for_assignment from rover r on.
RECURSIVE EnergyScan(_, _, _, _, _)
EnergyScan(d, state, assigned_costs, r, total_recharge_cost) ==
    IF r = num_rovers THEN total_recharge_cost
    ELSE IF assigned_costs[r] = 0
         THEN EnergyScan(d, state, assigned_costs, r + 1, total_recharge_cost)
         ELSE IF assigned_costs[r] > state.rovers[r].energy
              THEN LET min_recharge_dist == SunScan(d, state, r, 0, INT_MAX)
                   IN  IF min_recharge_dist # INT_MAX
                       THEN EnergyScan(d, state, assigned_costs, r + 1,
                                       total_recharge_cost + min_recharge_dist)
                       ELSE INT_MAX
              ELSE EnergyScan(d, state, assigned_costs, r + 1, total_recharge_cost)

calculate_energy_cost_for_assignment(d, state, assigned_costs) ==
    EnergyScan(d, state, assigned_costs, 0, 0)

\* The comparison turned round: ascending cost.
compareGoalCosts_ascending(a, b) == a.cost - b.cost

\* compareGoalCosts(a, b) <= 0: a may stay in front of b.
compareGoalCosts(a, b) == b.cost - a.cost

\* qsort with compareGoalCosts: descending cost.  Entries of equal cost are
\* left in their order of generation.
RECURSIVE InsertDesc(_, _)
InsertDesc(sorted, e) ==
    IF sorted = <<>> THEN <<e>>
    ELSE IF compareGoalCosts(Head(sorted), e) <= 0
         THEN <<Head(sorted)>> \o InsertDesc(Tail(sorted), e)
         ELSE <<e>> \o sorted

RECURSIVE qsort(_)
qsort(all_costs) ==
    IF all_costs = <<>> THEN <<>>
    ELSE InsertDesc(qsort(SubSeq(all_costs, 1, Len(all_costs) - 1)),
                    all_costs[Len(all_costs)])

\* The greedy loop: acc holds h_tasks, rover_used and assigned_costs.
RECURSIVE Greedy(_, _, _)
Greedy(all_costs, i, acc) ==
    IF i > Len(all_costs) THEN acc
    ELSE LET rover_id == all_costs[i].rover_id
         IN  IF rover_id # -1 /\ rover_id \notin acc.rover_used
             THEN Greedy(all_costs, i + 1,
                         [h_tasks |-> acc.h_tasks + all_costs[i].cost,
                          rover_used |-> acc.rover_used \cup {rover_id},
                          assigned_costs |->
                              [acc.assigned_costs EXCEPT ![rover_id] = all_costs[i].cost]])
             ELSE Greedy(all_costs, i + 1, acc)

\* heuristic as it would be without the goal test at its head and with an
\* empty candidate list taken for a dead end.
HeuristicNoGoalTest(d, nodeState) ==
    LET all_costs == calculate_all_goal_costs(d, nodeState)
    IN  IF Len(all_costs) = 0 THEN INT_MAX
        ELSE LET g == Greedy(qsort(all_costs), 1,
                             [h_tasks |-> 0, rover_used |-> {},
                              assigned_costs |-> [r \in Idx(MAX_ROVERS) |-> 0]])
                 h_energy == calculate_energy_cost_for_assignment(d, nodeState,
                                                                  g.assigned_costs)
                 final_h == g.h_tasks + h_energy
             IN  IF h_energy = INT_MAX THEN INT_MAX
                 ELSE IF final_h < 0 THEN 0
                      ELSE IF final_h > INT_MAX THEN INT_MAX ELSE final_h

\* heuristic with the global table dist passed as d.
HeuristicOn(d, nodeState) ==
    IF is_solution(nodeState) THEN 0
    ELSE LET all_costs == calculate_all_goal_costs(d, nodeState)
         IN  IF Len(all_costs) = 0 THEN 0
             ELSE LET g == Greedy(qsort(all_costs), 1,
                                  [h_tasks |-> 0, rover_used |-> {},
                                   assigned_costs |-> [r \in Idx(MAX_ROVERS) |-> 0]])
                      h_energy == calculate_energy_cost_for_assignment(d, nodeState,
                                                                       g.assigned_costs)
                      final_h == g.h_tasks + h_energy
                  IN  IF h_energy = INT_MAX THEN INT_MAX
                      ELSE IF final_h < 0 THEN 0
                           ELSE IF final_h > INT_MAX THEN INT_MAX ELSE final_h

heuristic(nodeState) == HeuristicOn(dist, nodeState)

\* ---------------------------------------------------------------------
\* minheap.h
\* ---------------------------------------------------------------------
\* A MinHeap is [nodeArray, nodeSize, capacity]; nodeArray holds the live
\* entries nodeArray[0..nodeSize-1] as a sequence, C index i at position
\* i + 1.  A HeapNode is [f, node].
createMinHeap(capacity) == [nodeArray |-> <<>>, nodeSize |-> 0, capacity |-> capacity]

resizeMinHeap(heap) == [heap EXCEPT !.capacity = @ * 2]

swapNodes(a, i, j) == [a EXCEPT ![i + 1] = a[j + 1], ![j + 1] = a[i + 1]]

\* minHeapify that looks at the left child only.
RECURSIVE minHeapify_left_only(_, _, _)
minHeapify_left_only(a, nodeSize, i) ==
    LET left == 2 * i + 1
        smallest == IF left < nodeSize /\ a[left + 1].f < a[i + 1].f THEN left ELSE i
    IN  IF smallest = i THEN a
        ELSE minHeapify_left_only(swapNodes(a, i, smallest), nodeSize, smallest)

RECURSIVE minHeapify(_, _, _)
minHeapify(a, nodeSize, i) ==
    LET left == 2 * i + 1
        right == 2 * i + 2
        s1 == IF left < nodeSize /\ a[left + 1].f < a[i + 1].f THEN left ELSE i
        smallest == IF right < nodeSize /\ a[right + 1].f < a[s1 + 1].f THEN right ELSE s1
    IN  IF smallest = i THEN a
        ELSE minHeapify(swapNodes(a, i, smallest), nodeSize, smallest)

\* The bubble-up loop of insert_node.
RECURSIVE BubbleUp(_, _)
BubbleUp(a, i) ==
    IF i > 0 /\ a[((i - 1) \div 2) + 1].f > a[i + 1].f
    THEN BubbleUp(swapNodes(a, i, (i - 1) \div 2), (i - 1) \div 2)
    ELSE a

insert_node(heap, f, node) ==
    LET h1 == IF heap.nodeSize = heap.capacity THEN resizeMinHeap(heap) ELSE heap
        i == h1.nodeSize
    IN  [h1 EXCEPT !.nodeArray = BubbleUp(Append(h1.nodeArray, [f |-> f, node |-> node]), i),
                   !.nodeSize = i + 1]

\* extract_min that returns the root and leaves it in the heap.
extract_min_peek(heap) == [root |-> heap.nodeArray[1], heap |-> heap]

\* extract_min on a non-empty heap: the entry returned and the heap left.
extract_min(heap) ==
    LET n == heap.nodeSize
        moved == [heap.nodeArray EXCEPT ![1] = heap.nodeArray[n]]
    IN  [root |-> heap.nodeArray[1],
         heap |-> [heap EXCEPT !.nodeArray = minHeapify(SubSeq(moved, 1, n - 1), n - 1, 0),
                               !.nodeSize = n - 1]]

is_empty_heap(heap) == heap.nodeSize = 0

\* ---------------------------------------------------------------------
\* planner.c : the closed set
\* ---------------------------------------------------------------------
\* make_state_key that leaves energy_levels at the 0 of the memset.
make_state_key_no_energy(s) ==
    [rover_positions |-> [r \in Idx(num_rovers) |-> s.rovers[r].position],
     energy_levels |-> [r \in Idx(num_rovers) |-> 0],
     has_soil_analysis |-> {r \in Idx(num_rovers) : s.rovers[r].has_soil_analysis # {}},
     has_rock_analysis |-> {r \in Idx(num_rovers) : s.rovers[r].has_rock_analysis # {}},
     have_image_bm |-> [r \in Idx(num_rovers) |->
                          {o * num_modes + m : <<o, m>> \in
                              {om \in Idx(num_objectives) \X Idx(num_modes) :
                                  om \in s.rovers[r].have_image}}],
     has_soil_sample |-> {w \in Idx(num_waypoints) : s.waypoints[w].has_soil_sample # 0},
     has_rock_sample |-> {w \in Idx(num_waypoints) : s.waypoints[w].has_rock_sample # 0},
     communicated_soil_sample |->
         {w \in Idx(num_waypoints) : s.waypoints[w].communicated_soil # 0},
     communicated_rock_sample |->
         {w \in Idx(num_waypoints) : s.waypoints[w].communicated_rock # 0},
     cameras_calibrated |-> {c \in Idx(num_cameras) : s.cameras[c].calibrated # 0},
     full_stores |-> {st \in Idx(num_stores) : s.stores[st].is_full # 0},
     communicated_image |->
         {o \in Idx(num_objectives) : s.objectives[o].communicated_image # {}},
     recharges |-> s.recharges]

make_state_key(s) ==
    [rover_positions |-> [r \in Idx(num_rovers) |-> s.rovers[r].position],
     energy_levels |-> [r \in Idx(num_rovers) |-> s.rovers[r].energy],
     has_soil_analysis |-> {r \in Idx(num_rovers) : s.rovers[r].has_soil_analysis # {}},
     has_rock_analysis |-> {r \in Idx(num_rovers) : s.rovers[r].has_rock_analysis # {}},
     have_image_bm |-> [r \in Idx(num_rovers) |->
                          {o * num_modes + m : <<o, m>> \in
                              {om \in Idx(num_objectives) \X Idx(num_modes) :
                                  om \in s.rovers[r].have_image}}],
     has_soil_sample |-> {w \in Idx(num_waypoints) : s.waypoints[w].has_soil_sample # 0},
     has_rock_sample |-> {w \in Idx(num_waypoints) : s.waypoints[w].has_rock_sample # 0},
     communicated_soil_sample |->
         {w \in Idx(num_waypoints) : s.waypoints[w].communicated_soil # 0},
     communicated_rock_sample |->
         {w \in Idx(num_waypoints) : s.waypoints[w].communicated_rock # 0},
     cameras_calibrated |-> {c \in Idx(num_cameras) : s.cameras[c].calibrated # 0},
     full_stores |-> {st \in Idx(num_stores) : s.stores[st].is_full # 0},
     communicated_image |->
         {o \in Idx(num_objectives) : s.objectives[o].communicated_image # {}},
     recharges |-> s.recharges]

state_exists(set, key) == key \in set

add_to_state_set(set, key) == set \cup {key}

\* check_with_parents on a state: the value returned and the closed set left.
\* check_with_parents without the lookup: every state counts as new.
check_with_parents_no_lookup(set, currState) ==
    [ret |-> 1, set |-> add_to_state_set(set, make_state_key(currState))]

check_with_parents(set, currState) ==
    LET sk == make_state_key(currState)
    IN  IF state_exists(set, sk)
        THEN [ret |-> 0, set |-> set]
        ELSE [ret |-> 1, set |-> add_to_state_set(set, sk)]

\* ---------------------------------------------------------------------
\* planner.c : parameter names
\* ---------------------------------------------------------------------
\* A C string is the sequence of its characters.
Chars(word) ==
    CASE word = "rover" -> <<"r", "o", "v", "e", "r">>
      [] word = "waypoint" -> <<"w", "a", "y", "p", "o", "i", "n", "t">>
      [] word = "store" -> <<"s", "t", "o", "r", "e">>
      [] word = "camera" -> <<"c", "a", "m", "e", "r", "a">>
      [] word = "objective" -> <<"o", "b", "j", "e", "c", "t", "i", "v", "e">>
      [] word = "colour" -> <<"c", "o", "l", "o", "u", "r">>
      [] word = "high_res" -> <<"h", "i", "g", "h", "_", "r", "e", "s">>
      [] word = "low_res" -> <<"l", "o", "w", "_", "r", "e", "s">>
      [] word = "general" -> <<"g", "e", "n", "e", "r", "a", "l">>
      [] word = "navigate" -> <<"n", "a", "v", "i", "g", "a", "t", "e">>
      [] word = "recharge" -> <<"r", "e", "c", "h", "a", "r", "g", "e">>
      [] word = "sample_soil" -> <<"s", "a", "m", "p", "l", "e", "_", "s", "o", "i", "l">>
      [] word = "sample_rock" -> <<"s", "a", "m", "p", "l", "e", "_", "r", "o", "c", "k">>
      [] word = "drop" -> <<"d", "r", "o", "p">>
      [] word = "calibrate" -> <<"c", "a", "l", "i", "b", "r", "a", "t", "e">>
      [] word = "take_image" -> <<"t", "a", "k", "e", "_", "i", "m", "a", "g", "e">>
      [] word = "communicate_" ->
            <<"c", "o", "m", "m", "u", "n", "i", "c", "a", "t", "e", "_">>
      [] word = "soil_data" -> <<"s", "o", "i", "l", "_", "d", "a", "t", "a">>
      [] word = "rock_data" -> <<"r", "o", "c", "k", "_", "d", "a", "t", "a">>
      [] word = "image_data" -> <<"i", "m", "a", "g", "e", "_", "d", "a", "t", "a">>
      [] word = "Solution" -> <<"S", "o", "l", "u", "t", "i", "o", "n">>
      [] word = "length:" -> <<"l", "e", "n", "g", "t", "h", ":">>
      [] word = "Total" -> <<"T", "o", "t", "a", "l">>
      [] word = "recharges" -> <<"r", "e", "c", "h", "a", "r", "g", "e", "s">>
      [] word = "uses:" -> <<"u", "s", "e", "s", ":">>

DigitChar == <<"0", "1", "2", "3", "4", "5", "6", "7", "8", "9">>

\* The characters printf's %d gives for n.
RECURSIVE Decimal(_)
Decimal(n) ==
    IF n < 0 THEN <<"-">> \o Decimal(0 - n)
    ELSE IF n < 10 THEN <<DigitChar[n + 1]>>
         ELSE Decimal(n \div 10) \o <<DigitChar[(n % 10) + 1]>>

\* sprintf(buf, "<word>%d", param)
sprintf(word, param) == Chars(word) \o Decimal(param)

ModeName(param) ==
    CASE param = 0 -> Chars("colour")
      [] param = 1 -> Chars("high_res")
      [] OTHER -> Chars("low_res")

\* The string get_param_name writes to param_names[index].
get_param_name(action_type, param, index) ==
    CASE action_type \in {0, 1} -> sprintf("waypoint", param)
      [] action_type \in {2, 3} ->
            IF index = 1 THEN sprintf("store", param) ELSE sprintf("waypoint", param)
      [] action_type = 4 -> sprintf("store", param)
      [] action_type = 5 ->
            IF index = 1 THEN sprintf("camera", param)
            ELSE IF index = 2 THEN sprintf("objective", param)
                 ELSE sprintf("waypoint", param)
      [] action_type = 6 ->
            IF index = 1 THEN sprintf("waypoint", param)
            ELSE IF index = 2 THEN sprintf("objective", param)
                 ELSE IF index = 3 THEN sprintf("camera", param)
                      ELSE ModeName(param)
      [] action_type \in {7, 8} -> sprintf("waypoint", param)
      [] OTHER ->
            IF index = 1 THEN sprintf("objective", param)
            ELSE IF index = 2 THEN ModeName(param)
                 ELSE sprintf("waypoint", param)

\* A param_names entry no statement has written: the bytes malloc returned.
Unwritten == <<"?">>

\* action_taken as add_child fills it: param_names[0..5] at positions 1..6.
ActionTaken(action_type, params, param_count) ==
    LET written == [i \in 1 .. 6 |->
                       IF i = 1 THEN sprintf("rover", params[1])
                       ELSE IF i <= param_count
                            THEN get_param_name(action_type, params[i], i - 1)
                            ELSE Unwritten]
    IN  IF action_type \in {7, 8, 9}
        THEN [action_type |-> action_type,
              num_params |-> param_count + 1,
              param_names |-> [written EXCEPT ![6] = Chars("general")]]
        ELSE [action_type |-> action_type,
              num_params |-> param_count,
              param_names |-> written]

\* ---------------------------------------------------------------------
\* planner.c : the search tree
\* ---------------------------------------------------------------------
\* A tree_node is [currState, depth, h, g, f, parent, action_taken, freed].
\* `parent` is the position of the parent in `nodes`, 0 for NULL.  `freed`
\* tells that add_child gave the node back to the allocator; h and f of
\* such a node were never assigned and are never read.
NoNames == [i \in 1 .. 6 |-> Unwritten]

\* The search state threaded through one expansion.
add_frontier_in_order(heap, f, node) == insert_node(heap, f, node)

\* add_child as it would be with g taken from the action alone.
add_child_own_cost(acc, current_node, action_type, currState, params, param_count, energy_spent) ==
    LET parent == acc.nodes[current_node]
        child == [currState |-> currState,
                  depth |-> parent.depth + 1,
                  g |-> energy_spent,
                  h |-> 0,
                  f |-> 0,
                  parent |-> current_node,
                  action_taken |-> ActionTaken(action_type, params, param_count),
                  freed |-> TRUE]
        chk == check_with_parents(acc.state_set, currState)
        h == heuristic(currState)
        f == IF method = best THEN h ELSE h + child.g
    IN  IF chk.ret = 0
        THEN [acc EXCEPT !.nodes = Append(@, child)]
        ELSE [nodes |-> Append(acc.nodes, [child EXCEPT !.h = h, !.f = f, !.freed = FALSE]),
              state_set |-> chk.set,
              frontier |-> add_frontier_in_order(acc.frontier, f, Len(acc.nodes) + 1)]

\* add_child as it would be with the parent's depth copied to the child.
add_child_same_depth(acc, current_node, action_type, currState, params, param_count, energy_spent) ==
    LET parent == acc.nodes[current_node]
        child == [currState |-> currState,
                  depth |-> parent.depth,
                  g |-> parent.g + energy_spent,
                  h |-> 0,
                  f |-> 0,
                  parent |-> current_node,
                  action_taken |-> ActionTaken(action_type, params, param_count),
                  freed |-> TRUE]
        chk == check_with_parents(acc.state_set, currState)
        h == heuristic(currState)
        f == IF method = best THEN h ELSE h + child.g
    IN  IF chk.ret = 0
        THEN [acc EXCEPT !.nodes = Append(@, child)]
        ELSE [nodes |-> Append(acc.nodes, [child EXCEPT !.h = h, !.f = f, !.freed = FALSE]),
              state_set |-> chk.set,
              frontier |-> add_frontier_in_order(acc.frontier, f, Len(acc.nodes) + 1)]

\* add_child: the child is nodes[Len(nodes) + 1] of the result when kept.
\* add_child that hands the child to the frontier after it gave it back to
\* the allocator.
add_child_push_freed(acc, current_node, action_type, currState, params, param_count, energy_spent) ==
    LET parent == acc.nodes[current_node]
        child == [currState |-> currState,
                  depth |-> parent.depth + 1,
                  g |-> parent.g + energy_spent,
                  h |-> 0,
                  f |-> 0,
                  parent |-> current_node,
                  action_taken |-> ActionTaken(action_type, params, param_count),
                  freed |-> TRUE]
        chk == check_with_parents(acc.state_set, currState)
        h == heuristic(currState)
        f == IF method = best THEN h ELSE h + child.g
    IN  IF chk.ret = 0
        THEN [acc EXCEPT !.nodes = Append(@, child),
                         !.frontier = add_frontier_in_order(@, f, Len(acc.nodes) + 1)]
        ELSE [nodes |-> Append(acc.nodes, [child EXCEPT !.h = h, !.f = f, !.freed = FALSE]),
              state_set |-> chk.set,
              frontier |-> add_frontier_in_order(acc.frontier, f, Len(acc.nodes) + 1)]

add_child(acc, current_node, action_type, currState, params, param_count, energy_spent) ==
    LET parent == acc.nodes[current_node]
        child == [currState |-> currState,
                  depth |-> parent.depth + 1,
                  g |-> parent.g + energy_spent,
                  h |-> 0,
                  f |-> 0,
                  parent |-> current_node,
                  action_taken |-> ActionTaken(action_type, params, param_count),
                  freed |-> TRUE]
        chk == check_with_parents(acc.state_set, currState)
        h == heuristic(currState)
        f == IF method = best THEN h ELSE h + child.g
    IN  IF chk.ret = 0
        THEN [acc EXCEPT !.nodes = Append(@, child)]
        ELSE [nodes |-> Append(acc.nodes, [child EXCEPT !.h = h, !.f = f, !.freed = FALSE]),
              state_set |-> chk.set,
              frontier |-> add_frontier_in_order(acc.frontier, f, Len(acc.nodes) + 1)]

\* try_add_child: an inapplicable action leaves the search state as it was.
try_add_child(acc, parent_node, action_type, params, param_count) ==
    LET res == apply_action(acc.nodes[parent_node].currState, action_type, params)
    IN  IF res.ret # 0
        THEN add_child(acc, parent_node, action_type, res.next, params, param_count,
                       res.energy_spent)
        ELSE acc

Try(action_type, params) == <<[action_type |-> action_type, params |-> params]>>

\* The calls of try_add_child that find_children makes for one rover, in order.
RoverAttempts(s, rover) ==
    LET pos == s.rovers[rover].position
        lander_pos == s.lander.lander_position
        energy == s.rovers[rover].energy
        recharges == IF s.waypoints[pos].in_sun # 0 /\ energy < 8
                     THEN Try(1, <<rover, pos>>) ELSE <<>>
        soils == IF /\ s.rovers[rover].equipped_soil # 0 /\ energy >= 3
                    /\ pos \in goal.communicated_soil_data
                    /\ s.waypoints[pos].communicated_soil = 0
                    /\ s.waypoints[pos].has_soil_sample # 0
                 THEN Cat([store \in Idx(num_stores) |->
                              IF s.stores[store].rover_id = rover /\ s.stores[store].is_full = 0
                              THEN Try(2, <<rover, store, pos>>) ELSE <<>>], num_stores)
                 ELSE <<>>
        rocks == IF /\ s.rovers[rover].equipped_rock # 0 /\ energy >= 5
                    /\ pos \in goal.communicated_rock_data
                    /\ s.waypoints[pos].communicated_rock = 0
                    /\ s.waypoints[pos].has_rock_sample # 0
                 THEN Cat([store \in Idx(num_stores) |->
                              IF s.stores[store].rover_id = rover /\ s.stores[store].is_full = 0
                              THEN Try(3, <<rover, store, pos>>) ELSE <<>>], num_stores)
                 ELSE <<>>
        shots(cam, obj) ==
            Cat([mode \in Idx(num_modes) |->
                    IF /\ s.cameras[cam].calibrated # 0
                       /\ energy >= 1
                       /\ Bit(s.cameras[cam].modes_supported, mode)
                       /\ Bit(s.objectives[obj].visible_waypoints, pos)
                       /\ <<obj, mode>> \in goal.communicated_image_data
                       /\ ~Bit(s.objectives[obj].communicated_image, mode)
                    THEN Try(6, <<rover, pos, obj, cam, mode>>) ELSE <<>>], num_modes)
        imaging == IF s.rovers[rover].equipped_imaging # 0
                   THEN Cat([cam \in Idx(num_cameras) |->
                               IF s.cameras[cam].rover_id # rover THEN <<>>
                               ELSE Cat([obj \in Idx(num_objectives) |->
                                           (IF /\ energy >= 2
                                               /\ Bit(s.objectives[obj].visible_waypoints, pos)
                                               /\ Bit(s.cameras[cam].calibration_targets, obj)
                                            THEN Try(5, <<rover, cam, obj, pos>>) ELSE <<>>)
                                           \o shots(cam, obj)], num_objectives)],
                            num_cameras)
                   ELSE <<>>
        comm_soil == IF energy >= 4
                     THEN Cat([wp \in Idx(num_waypoints) |->
                                 IF /\ wp \in goal.communicated_soil_data
                                    /\ s.waypoints[wp].communicated_soil = 0
                                    /\ Bit(s.rovers[rover].has_soil_analysis, wp)
                                 THEN Try(7, <<rover, wp, pos, lander_pos>>) ELSE <<>>],
                              num_waypoints)
                     ELSE <<>>
        comm_rock == IF energy >= 4
                     THEN Cat([wp \in Idx(num_waypoints) |->
                                 IF /\ wp \in goal.communicated_rock_data
                                    /\ s.waypoints[wp].communicated_rock = 0
                                    /\ Bit(s.rovers[rover].has_rock_analysis, wp)
                                 THEN Try(8, <<rover, wp, pos, lander_pos>>) ELSE <<>>],
                              num_waypoints)
                     ELSE <<>>
        comm_image == IF energy >= 6
                      THEN Cat([om \in Idx(num_objectives * num_modes) |->
                                  LET obj == om \div num_modes
                                      mode == om % num_modes
                                  IN  IF /\ <<obj, mode>> \in goal.communicated_image_data
                                         /\ ~Bit(s.objectives[obj].communicated_image, mode)
                                         /\ <<obj, mode>> \in s.rovers[rover].have_image
                                      THEN Try(9, <<rover, obj, mode, pos, lander_pos>>)
                                      ELSE <<>>], num_objectives * num_modes)
                      ELSE <<>>
        comms == IF s.lander.channel_free # 0 /\ Bit(s.waypoints[pos].visible_waypoints, lander_pos)
                 THEN comm_soil \o comm_rock \o comm_image
                 ELSE <<>>
        drops == Cat([store \in Idx(num_stores) |->
                        IF s.stores[store].rover_id = rover /\ s.stores[store].is_full # 0
                        THEN Try(4, <<rover, store>>) ELSE <<>>], num_stores)
        navigates == Cat([wp2 \in Idx(num_waypoints) |->
                            IF /\ pos # wp2
                               /\ energy >= 8
                               /\ Bit(s.waypoints[pos].visible_waypoints, wp2)
                               /\ <<pos, wp2>> \in s.rovers[rover].can_traverse
                            THEN Try(0, <<rover, pos, wp2>>) ELSE <<>>], num_waypoints)
    IN  IF s.rovers[rover].available = 0 THEN <<>>
        ELSE recharges \o soils \o rocks \o imaging \o comms \o drops \o navigates

\* The calls of find_children with the loop over the rovers running downwards.
Attempts_descending(s) ==
    Cat([i \in Idx(num_rovers) |-> RoverAttempts(s, num_rovers - 1 - i)], num_rovers)

\* Every call of try_add_child that find_children makes on state s, in order.
Attempts(s) == Cat([rover \in Idx(num_rovers) |-> RoverAttempts(s, rover)], num_rovers)

\* The calls from the i-th on, applied to the search state acc.
RECURSIVE Expand(_, _, _, _)
Expand(acc, current_node, attempts, i) ==
    IF i > Len(attempts) THEN acc
    ELSE Expand(try_add_child(acc, current_node, attempts[i].action_type,
                              attempts[i].params, Len(attempts[i].params)),
                current_node, attempts, i + 1)

find_children(acc, current_node) ==
    Expand(acc, current_node, Attempts(acc.nodes[current_node].currState), 1)

\* ---------------------------------------------------------------------
\* parser.h : tokenize, get_object_number, get_mode_index
\* ---------------------------------------------------------------------
\* A line of text is the sequence of its words, the runs of characters
\* between blanks; an empty word stands for two blanks in a row.
IsDigit(c) == \E i \in 1 .. 10 : DigitChar[i] = c

DigitValue(c) == (CHOOSE i \in 1 .. 10 : DigitChar[i] = c) - 1

\* The tokens that the strtok loop cuts from one word: a closing
\* parenthesis at the end of a word is a token of its own.
TokensOf(word) ==
    IF word = <<>> THEN <<>>
    ELSE IF word[Len(word)] = ")"
         THEN (IF Len(word) > 1 THEN <<SubSeq(word, 1, Len(word) - 1)>> ELSE <<>>)
                  \o << <<")">> >>
         ELSE <<word>>

\* tokens[0..amount-1] at positions 1..amount.
tokenize(line) ==
    LET opened == line # <<>> /\ line[1] # <<>> /\ line[1][1] = "("
        rest == IF opened THEN <<Tail(line[1])>> \o Tail(line) ELSE line
    IN  (IF opened THEN << <<"(">> >> ELSE <<>>)
            \o Cat([i \in Idx(Len(rest)) |-> TokensOf(rest[i + 1])], Len(rest))

\* The position of the first digit of str from position i on.
RECURSIVE FirstDigit(_, _)
FirstDigit(str, i) ==
    IF i <= Len(str) /\ ~IsDigit(str[i]) THEN FirstDigit(str, i + 1) ELSE i

\* atoi on the digits of str from position i on.
RECURSIVE Atoi(_, _, _)
Atoi(str, i, acc) ==
    IF i <= Len(str) /\ IsDigit(str[i])
    THEN Atoi(str, i + 1, acc * 10 + DigitValue(str[i]))
    ELSE acc

get_object_number(object_name) ==
    LET i == FirstDigit(object_name, 1)
    IN  IF i <= Len(object_name) THEN Atoi(object_name, i, 0) ELSE -1

get_mode_index(mode_name) ==
    IF mode_name = Chars("colour") THEN 0
    ELSE IF mode_name = Chars("high_res") THEN 1
         ELSE IF mode_name = Chars("low_res") THEN 2
              ELSE -1

\* ---------------------------------------------------------------------
\* solution.h : extract_solution, write_solution_to_file
\* ---------------------------------------------------------------------
\* An entry of the array `solution` that no statement has written.
NoAction ==
    [action_type |-> -1, num_params |-> 0, param_names |-> NoNames, h |-> 0, f |-> 0]

\* The backtracking loop: i is the C index before its decrement, which is
\* the position written in the sequence.  A position outside the array is
\* not part of `solution`.
RECURSIVE Backtrack(_, _, _, _)
Backtrack(tree, sol, temp_node, i) ==
    IF tree[temp_node].parent = 0 THEN sol
    ELSE LET a == tree[temp_node].action_taken
             entry == [action_type |-> a.action_type, num_params |-> a.num_params,
                       param_names |-> a.param_names,
                       h |-> tree[temp_node].h, f |-> tree[temp_node].f]
         IN  Backtrack(tree,
                       IF i \in 1 .. Len(sol) THEN [sol EXCEPT ![i] = entry] ELSE sol,
                       tree[temp_node].parent, i - 1)

\* The backtracking loop as it would be when it filled the array from its
\* first position on.
RECURSIVE BacktrackForward(_, _, _, _)
BacktrackForward(tree, sol, temp_node, i) ==
    IF tree[temp_node].parent = 0 THEN sol
    ELSE LET a == tree[temp_node].action_taken
             entry == [action_type |-> a.action_type, num_params |-> a.num_params,
                       param_names |-> a.param_names,
                       h |-> tree[temp_node].h, f |-> tree[temp_node].f]
         IN  BacktrackForward(tree,
                              IF i \in 1 .. Len(sol) THEN [sol EXCEPT ![i] = entry] ELSE sol,
                              tree[temp_node].parent, i + 1)

extract_solution_forward(tree, node) ==
    [solution_length |-> tree[node].depth,
     total_recharges |-> tree[node].currState.recharges,
     total_energy |-> tree[node].g,
     solution |-> BacktrackForward(tree, [i \in 1 .. tree[node].depth |-> NoAction], node, 1)]

\* The globals that extract_solution assigns.
extract_solution(tree, node) ==
    [solution_length |-> tree[node].depth,
     total_recharges |-> tree[node].currState.recharges,
     total_energy |-> tree[node].g,
     solution |-> Backtrack(tree, [i \in 1 .. tree[node].depth |-> NoAction], node,
                            tree[node].depth)]

ActionWord(action_type) ==
    CASE action_type = 0 -> Chars("navigate")
      [] action_type = 1 -> Chars("recharge")
      [] action_type = 2 -> Chars("sample_soil")
      [] action_type = 3 -> Chars("sample_rock")
      [] action_type = 4 -> Chars("drop")
      [] action_type = 5 -> Chars("calibrate")
      [] action_type = 6 -> Chars("take_image")
      [] action_type = 7 -> Chars("communicate_") \o Chars("soil_data")
      [] action_type = 8 -> Chars("communicate_") \o Chars("rock_data")
      [] OTHER -> Chars("communicate_") \o Chars("image_data")

\* What a never-written param_names entry can hold when it is printed.
Garbage == {<<>>, Chars("low_res")}

\* The line printed for one action; junk is what its unwritten entries hold.
PlanLine(a, junk) ==
    << <<"(">>, ActionWord(a.action_type) >>
        \o [j \in 1 .. a.num_params |->
               IF a.param_names[j] = Unwritten THEN junk ELSE a.param_names[j]]
        \o << <<")">>, <<"h", "=">> \o Decimal(a.h) \o <<",">>,
              <<"f", "=">> \o Decimal(a.f) >>

\* The plan positions whose line prints a never-written entry.
UnwrittenLines(sol) ==
    {i \in 1 .. Len(sol) :
        \E j \in 1 .. sol[i].num_params : sol[i].param_names[j] = Unwritten}

\* The lines of the file; junk[i] is what line i's unwritten entries hold.
write_solution_to_file(length, recharges, sol, junk) ==
    << <<Chars("Solution"), Chars("length:"), Decimal(length)>>,
       <<Chars("Total"), Chars("recharges"), Chars("uses:"), Decimal(recharges)>> >>
        \o [i \in 1 .. length |->
               PlanLine(sol[i], IF i \in DOMAIN junk THEN junk[i] ELSE <<>>)]

\* ---------------------------------------------------------------------
\* parser.h : is_valid_state
\* ---------------------------------------------------------------------
is_valid_state(state) ==
    /\ num_rovers > 0 /\ num_rovers <= MAX_ROVERS
    /\ num_waypoints > 0 /\ num_waypoints <= MAX_WAYPOINTS
    /\ num_cameras >= 0 /\ num_cameras <= MAX_CAMERAS
    /\ num_stores >= 0 /\ num_stores <= MAX_STORES
    /\ num_objectives > 0 /\ num_objectives <= MAX_OBJECTIVES
    /\ \A i \in Idx(num_rovers) :
          /\ state.rovers[i].position >= 0
          /\ state.rovers[i].position < num_waypoints
          /\ state.rovers[i].energy >= 0
          /\ \A jk \in state.rovers[i].can_traverse :
                Bit(state.waypoints[jk[1]].visible_waypoints, jk[2])
    /\ \A i \in Idx(num_waypoints) :
          /\ state.waypoints[i].has_soil_sample \in {0, 1}
          /\ state.waypoints[i].has_rock_sample \in {0, 1}
          /\ state.waypoints[i].in_sun \in {0, 1}
    /\ state.lander.lander_position >= 0
    /\ state.lander.lander_position < num_waypoints
    /\ \A i \in Idx(num_cameras) :
          /\ state.cameras[i].rover_id >= 0
          /\ state.cameras[i].rover_id < num_rovers
          /\ state.cameras[i].calibrated \in {0, 1}
          /\ state.cameras[i].calibration_targets # {}
          /\ state.cameras[i].modes_supported # {}
    /\ \A i \in Idx(num_stores) :
          /\ state.stores[i].rover_id >= 0
          /\ state.stores[i].rover_id < num_rovers
          /\ state.stores[i].is_full \in {0, 1}
    /\ \A i \in Idx(num_objectives) : state.objectives[i].visible_waypoints # {}

\* ---------------------------------------------------------------------
\* Problem instances: what parse_pddl_file hands to main
\* ---------------------------------------------------------------------
\* Three maps over three waypoints.  "line": 0 <-> 1 <-> 2 with the lander
\* at waypoint 2, so waypoint 1 is the only waypoint that sees the lander.
\* "ring": 0 -> 1 -> 2 -> 0 and 2 -> 1 with the lander at waypoint 0, so
\* waypoint 2 is the only waypoint that sees the lander.  "pair": 0 <-> 1
\* with the lander at waypoint 2, which waypoint 1 sees and no rover can
\* drive to.  "loop": the ring with the lander at waypoint 1, which the
\* waypoints 0 and 2 both see.
Visible(map) ==
    CASE map = "line" -> <<{1}, {0, 2}, {1}>>
      [] map \in {"ring", "loop"} -> <<{1}, {2}, {0, 1}>>
      [] OTHER -> <<{1}, {0, 2}, {}>>

NumWaypoints(map) == Len(Visible(map))

LanderAt(map) == IF map = "ring" THEN 0 ELSE IF map = "loop" THEN 1 ELSE 2

Edges(map) ==
    CASE map = "line" -> {<<0, 1>>, <<1, 0>>, <<1, 2>>, <<2, 1>>}
      [] map \in {"ring", "loop"} -> {<<0, 1>>, <<1, 2>>, <<2, 0>>, <<2, 1>>}
      [] OTHER -> {<<0, 1>>, <<1, 0>>}

Energies == {7, 20}

\* The imaging facts of most instances: a camera that supports high_res and
\* is not calibrated, and an objective that is visible from waypoint 0.
OneMode == [modes_supported |-> {1}, calibrated |-> 0, visible_from |-> {0}]

\* stores[st].rover_id after the (store_of s r) facts: each fact writes the
\* field, so the last fact that names the store stays; 0 from the memset
\* when no fact names it.
StoreRover(facts, st) ==
    LET named == {i \in DOMAIN facts : facts[i][1] = st}
    IN  IF named = {} THEN 0
        ELSE facts[CHOOSE i \in named : \A j \in named : j <= i][2]

\* The State that the parser builds for a problem p.
ProblemState(p) ==
    [rovers |-> [r \in Idx(p.num_rovers) |->
        [position |-> p.position[r + 1],
         energy |-> p.energy[r + 1],
         available |-> IF r \in p.unavailable THEN 0 ELSE 1,
         has_soil_analysis |-> {},
         has_rock_analysis |-> {},
         equipped_soil |-> 1,
         equipped_rock |-> IF p.soil_only THEN 0 ELSE 1,
         equipped_imaging |-> IF r = 0 /\ ~p.soil_only THEN 1 ELSE 0,
         can_traverse |-> IF p.isolated /\ r = 0 THEN {} ELSE Edges(p.map),
         have_image |-> {}]],
     waypoints |-> [w \in Idx(NumWaypoints(p.map)) |->
        [has_soil_sample |-> IF w = 1 THEN 1 ELSE 0,
         has_rock_sample |-> IF w = 1 /\ ~p.soil_only THEN 1 ELSE 0,
         communicated_soil |-> 0,
         communicated_rock |-> 0,
         in_sun |-> IF w \in p.in_sun THEN 1 ELSE 0,
         visible_waypoints |-> Visible(p.map)[w + 1]]],
     cameras |-> [c \in Idx(IF p.soil_only THEN 0 ELSE 1) |->
        [calibrated |-> p.imaging.calibrated, rover_id |-> 0, calibration_targets |-> {0},
         modes_supported |-> p.imaging.modes_supported]],
     stores |-> [st \in Idx(p.num_rovers) |->
        [is_full |-> p.full, rover_id |-> StoreRover(p.store_of, st)]],
     objectives |-> [o \in Idx(1) |->
        [communicated_image |-> {}, visible_waypoints |-> p.imaging.visible_from]],
     lander |-> [lander_position |-> LanderAt(p.map), channel_free |-> 1],
     recharges |-> p.recharges]

\* The goal tables the parser fills: a goal line sets the entry at the number
\* in the object's name, whether or not an object of that number is
\* declared (waypoint 3 is not).
Goals ==
    { [communicated_soil_data |-> gs, communicated_rock_data |-> gr,
       communicated_image_data |-> gi] :
        gs \in {{}, {1}}, gr \in {{}, {1}}, gi \in {{}, {<<0, 1>>}} }
    \cup { [communicated_soil_data |-> gs, communicated_rock_data |-> {},
             communicated_image_data |-> {}] : gs \in {{3}, {1, 3}} }

\* The instance "navigate then sample": one rover that is equipped for soil
\* analysis only, at waypoint 0 with energy 20 and an empty store, a soil
\* sample at waypoint 1, the goal communicated_soil_data waypoint1.
NavigateThenSample ==
    [num_rovers |-> 1, num_modes |-> 3, recharges |-> 0, store_of |-> <<<<0, 0>>>>, map |-> "pair", position |-> <<0>>, energy |-> <<20>>,
     in_sun |-> {}, unavailable |-> {}, isolated |-> FALSE, soil_only |-> TRUE, imaging |-> OneMode,
     full |-> 0,
     goal |-> [communicated_soil_data |-> {1}, communicated_rock_data |-> {},
               communicated_image_data |-> {}]]

\* The instance "recharge required": the same with energy 10 and waypoint 0
\* in sun.
RechargeRequired == [NavigateThenSample EXCEPT !.energy = <<10>>, !.in_sun = {0}]

\* A problem whose init section says (= (recharges) 2): one rover at
\* waypoint 1 of the "line" map, in sun, with energy 2, and the goal of the
\* soil of waypoint 1.
RechargedBefore ==
    [NavigateThenSample EXCEPT !.map = "line", !.position = <<1>>, !.energy = <<2>>,
                               !.in_sun = {1}, !.recharges = 2]

\* The rover of "navigate then sample" on the "loop" map, at waypoint 1 next
\* to the lander: the lander is seen from waypoint 2, one step away, and
\* from waypoint 0, two steps away.
TwoCommPoints ==
    [NavigateThenSample EXCEPT !.map = "loop", !.position = <<1>>]

\* Two rovers on the "line" map with the soil of waypoint 1 to communicate,
\* and a file that says (store_of store0 rover0), (store_of store0 rover1)
\* and (store_of store1 rover1).
SharedStore ==
    [num_rovers |-> 2, num_modes |-> 3, recharges |-> 0,
     store_of |-> <<<<0, 0>>, <<0, 1>>, <<1, 1>>>>,
     map |-> "line", position |-> <<0, 1>>, energy |-> <<20, 20>>, in_sun |-> {},
     unavailable |-> {}, isolated |-> FALSE, soil_only |-> FALSE, imaging |-> OneMode,
     full |-> 0,
     goal |-> [communicated_soil_data |-> {1}, communicated_rock_data |-> {},
               communicated_image_data |-> {}]]

Problems ==
    { [num_rovers |-> 1, num_modes |-> 3, recharges |-> 0, store_of |-> <<<<0, 0>>>>, map |-> m, position |-> <<ps>>, energy |-> <<e>>,
       in_sun |-> sun, unavailable |-> {}, isolated |-> iso, soil_only |-> FALSE,
       imaging |-> OneMode,
       full |-> 0, goal |-> g] :
        m \in {"line", "ring"}, ps \in {0, 1}, e \in Energies,
        sun \in {{}, {0}, {1}}, iso \in {FALSE}, g \in Goals }
    \cup { NavigateThenSample, RechargeRequired, RechargedBefore, TwoCommPoints,
           SharedStore }

\* ---------------------------------------------------------------------
\* planner.c : main, initialize_search, search
\* ---------------------------------------------------------------------
MaxExtracts == 20

\* The value of a State variable before the process that owns it has started.
NoState == [recharges |-> -1]

\* The state after the parse of a problem of the set P, before either
\* program has run.
InitOf(P) ==
    /\ \E p \in P :
          /\ num_rovers = p.num_rovers
          /\ num_waypoints = NumWaypoints(p.map)
          /\ num_cameras = IF p.soil_only THEN 0 ELSE 1
          /\ num_stores = p.num_rovers
          /\ num_objectives = 1
          /\ num_modes = p.num_modes
          /\ goal = p.goal
          /\ initial_state = ProblemState(p)
          /\ store_of = p.store_of
    /\ is_valid_state(initial_state)
    /\ method \in {best, astar}
    /\ dist = <<>>
    /\ nodes = <<>>
    /\ frontier = createMinHeap(0)
    /\ state_set = {}
    /\ pc = "main"
    /\ solution_node = 0
    /\ solution_length = 0
    /\ total_recharges = 0
    /\ total_energy = 0
    /\ solution = <<>>
    /\ exit_code = -2
    /\ solution_file = <<>>
    /\ total_extracts = 0
    /\ vstate = NoState
    /\ vnext = NoState
    /\ vline = 0
    /\ vexit = -2
    /\ vcost = 0
    /\ earlier_run = [runs |-> 0, file |-> <<>>]
    /\ heap_history = [inserted |-> <<>>, extracted |-> <<>>, inserts_before |-> <<>>]

Init == InitOf(Problems)

\* initialize_search: the shortest paths, the frontier and the root.  The
\* root's h is computed with the table just filled.
initialize_search ==
    /\ pc = "main"
    /\ \E d \in {precompute_shortest_paths(initial_state)} :
          LET h == HeuristicOn(d, initial_state)
              f == IF method = best THEN h ELSE 0 + h
          IN  /\ dist' = d
              /\ nodes' = <<[currState |-> initial_state, depth |-> 0, g |-> 0, h |-> h,
                             f |-> f, parent |-> 0,
                             action_taken |-> [action_type |-> -1, num_params |-> 0,
                                               param_names |-> NoNames],
                             freed |-> FALSE]>>
              /\ frontier' = add_frontier_in_order(createMinHeap(1000), f, 1)
    /\ pc' = "search"
    /\ UNCHANGED <<pvars, hvars, state_set, solution_node, total_extracts, ovars, vvars>>

\* The iteration as it would be with the goal test negated.
SearchFoundNegated ==
    /\ pc = "search"
    /\ ~is_empty_heap(frontier)
    /\ LET ex == extract_min(frontier)
       IN  /\ ~is_solution(nodes[ex.root.node].currState)
           /\ frontier' = ex.heap
           /\ solution_node' = ex.root.node
    /\ total_extracts' = total_extracts + 1
    /\ pc' = "found"
    /\ UNCHANGED <<pvars, hvars, dist, nodes, state_set, ovars, vvars>>

\* One iteration of the loop of search whose node is a solution.
SearchFound ==
    /\ pc = "search"
    /\ ~is_empty_heap(frontier)
    /\ LET ex == extract_min(frontier)
       IN  /\ is_solution(nodes[ex.root.node].currState)
           /\ frontier' = ex.heap
           /\ solution_node' = ex.root.node
    /\ total_extracts' = total_extracts + 1
    /\ pc' = "found"
    /\ UNCHANGED <<pvars, hvars, dist, nodes, state_set, ovars, vvars>>

\* One iteration of the loop of search that expands its node.
SearchExpand ==
    /\ pc = "search"
    /\ ~is_empty_heap(frontier)
    /\ total_extracts < MaxExtracts
    /\ LET ex == extract_min(frontier)
           acc == find_children([nodes |-> nodes, state_set |-> state_set,
                                 frontier |-> ex.heap], ex.root.node)
       IN  /\ ~is_solution(nodes[ex.root.node].currState)
           /\ nodes' = acc.nodes
           /\ state_set' = acc.state_set
           /\ frontier' = acc.frontier
    /\ total_extracts' = total_extracts + 1
    /\ UNCHANGED <<pvars, hvars, dist, solution_node, ovars, vvars, pc>>

\* The loop of search ends on an empty frontier: search returns NULL.
SearchExhausted ==
    /\ pc = "search"
    /\ is_empty_heap(frontier)
    /\ solution_node' = 0
    /\ pc' = "nosolution"
    /\ UNCHANGED <<pvars, hvars, dist, nodes, frontier, state_set, total_extracts, ovars, vvars>>

\* main after search returned a node: HASH_CLEAR, extract_solution,
\* write_solution_to_file, return 0.
MainSolution ==
    /\ pc = "found"
    /\ state_set' = {}
    /\ LET ex == extract_solution(nodes, solution_node)
       IN  /\ solution_length' = ex.solution_length
           /\ total_recharges' = ex.total_recharges
           /\ total_energy' = ex.total_energy
           /\ solution' = ex.solution
           /\ \E junk \in [UnwrittenLines(ex.solution) -> Garbage] :
                 solution_file' = write_solution_to_file(ex.solution_length,
                                                         ex.total_recharges,
                                                         ex.solution, junk)
    /\ exit_code' = 0
    /\ pc' = "done"
    /\ UNCHANGED <<pvars, hvars, dist, nodes, frontier, solution_node, total_extracts, vvars>>

\* main after search returned NULL: HASH_CLEAR, "No solution found.", return 0.
MainNoSolution ==
    /\ pc = "nosolution"
    /\ state_set' = {}
    /\ exit_code' = 0
    /\ pc' = "done"
    /\ UNCHANGED <<pvars, hvars, dist, nodes, frontier, solution_node, total_extracts,
                   solution_length, total_recharges, total_energy, solution,
                   solution_file, vvars>>

\* ---------------------------------------------------------------------
\* rover_verify.c : verify_solution
\* ---------------------------------------------------------------------
\* tokens[i] of the C array; a token the line does not have parses to -1.
Tok(tokens, i) == IF i + 1 <= Len(tokens) THEN tokens[i + 1] ELSE <<>>

\* The call of apply_action that a line's tokens ask for: action_type -1
\* for an unknown action name.
ParsedCall(tokens) ==
    LET name == Tok(tokens, 1)
        n(i) == get_object_number(Tok(tokens, i))
        m(i) == get_mode_index(Tok(tokens, i))
    IN  CASE name = ActionWord(0) -> [action_type |-> 0, params |-> <<n(2), n(3), n(4)>>]
          [] name = ActionWord(1) -> [action_type |-> 1, params |-> <<n(2), n(3)>>]
          [] name = ActionWord(2) -> [action_type |-> 2, params |-> <<n(2), n(3), n(4)>>]
          [] name = ActionWord(3) -> [action_type |-> 3, params |-> <<n(2), n(3), n(4)>>]
          [] name = ActionWord(4) -> [action_type |-> 4, params |-> <<n(2), n(3)>>]
          [] name = ActionWord(5) ->
                [action_type |-> 5, params |-> <<n(2), n(3), n(4), n(5)>>]
          [] name = ActionWord(6) ->
                [action_type |-> 6, params |-> <<n(2), n(3), n(4), n(5), m(6)>>]
          [] name = ActionWord(7) ->
                [action_type |-> 7, params |-> <<n(2), n(3), n(4), n(5)>>]
          [] name = ActionWord(8) ->
                [action_type |-> 8, params |-> <<n(2), n(3), n(4), n(5)>>]
          [] name = ActionWord(9) ->
                [action_type |-> 9, params |-> <<n(2), n(3), m(4), n(5), n(6)>>]
          [] OTHER -> [action_type |-> -1, params |-> <<>>]

\* What one iteration of the loop over the lines does with the call that
\* the line's tokens parsed to.
VerifyCall(call) ==
    LET res == apply_action(vstate, call.action_type, call.params)
    IN  IF call.action_type = -1 \/ \E i \in DOMAIN call.params : call.params[i] < 0
        THEN /\ vexit' = -1
             /\ UNCHANGED <<vstate, vnext, vcost>>
        ELSE /\ vnext' = res.next
             /\ IF res.ret = 1
                THEN /\ vstate' = res.next
                     /\ vcost' = vcost + res.energy_spent
                     /\ vexit' = vexit
                ELSE /\ vexit' = -1
                     /\ UNCHANGED <<vstate, vcost>>

\* One iteration of the loop over the lines of the file, on the line `line`.
VerifyStep(line) ==
    LET tokens == tokenize(line)
    IN  /\ vline' = vline + 1
        /\ IF Len(tokens) > 0 /\ tokens[1] = <<"(">>
           THEN VerifyCall(ParsedCall(tokens))
           ELSE UNCHANGED <<vstate, vnext, vexit, vcost>>

\* The verifier is started on the problem and on the file the planner wrote.
VerifyStart ==
    /\ pc = "done"
    /\ solution_file # <<>>
    /\ vstate = NoState
    /\ vexit = -2
    /\ vstate' = initial_state
    /\ UNCHANGED <<pvars, hvars, svars, ovars, vnext, vline, vexit, vcost, pc>>

VerifyLine ==
    /\ vstate # NoState
    /\ vexit = -2
    /\ vline < Len(solution_file)
    /\ VerifyStep(solution_file[vline + 1])
    /\ UNCHANGED <<pvars, hvars, svars, ovars, pc>>

\* The end of the file: the final state is checked against the goal.
VerifyEnd ==
    /\ vstate # NoState
    /\ vexit = -2
    /\ vline = Len(solution_file)
    /\ vexit' = IF is_solution(vstate) THEN 0 ELSE -1
    /\ UNCHANGED <<pvars, hvars, svars, ovars, vstate, vnext, vline, vcost, pc>>

Next ==
    \/ initialize_search
    \/ SearchFound
    \/ SearchExpand
    \/ SearchExhausted
    \/ MainSolution
    \/ MainNoSolution
    \/ VerifyStart
    \/ VerifyLine
    \/ VerifyEnd

Spec == Init /\ [][Next]_vars

\* ---------------------------------------------------------------------
\* The verifier on plan files that the planner did not write
\* ---------------------------------------------------------------------
MaxPlanLines == 7

MaxPlanCost == 24

\* The parameter arrays of an action over the declared objects and over the
\* three mode names that get_mode_index knows, declared or not.
ParamsOf(action_type) ==
    LET R == Idx(num_rovers)
        W == Idx(num_waypoints)
        S == Idx(num_stores)
        C == Idx(num_cameras)
        O == Idx(num_objectives)
        M == Idx(MAX_MODES)
    IN  CASE action_type = 0 -> R \X W \X W
          [] action_type = 1 -> R \X W
          [] action_type \in {2, 3} -> R \X S \X W
          [] action_type = 4 -> R \X S
          [] action_type = 5 -> R \X C \X O \X W
          [] action_type = 6 -> R \X W \X O \X C \X M
          [] action_type \in {7, 8} -> R \X W \X W \X W
          [] OTHER -> R \X O \X M \X W \X W

\* The verifier is started on the problem and on some plan file.
VerifyOther ==
    /\ pc = "done"
    /\ vstate = NoState
    /\ vexit = -2
    /\ vstate' = initial_state
    /\ UNCHANGED <<pvars, hvars, svars, ovars, vnext, vline, vexit, vcost, pc>>

\* The next line of that file is an action line whose tokens parse to an
\* action over the declared objects, and the action applies.
VerifyOtherLine ==
    /\ vstate # NoState
    /\ vexit = -2
    /\ vline < MaxPlanLines
    /\ vline' = vline + 1
    /\ \E action_type \in 0 .. 9 :
          \E params \in ParamsOf(action_type) :
             /\ apply_action(vstate, action_type, params).ret = 1
             /\ VerifyCall([action_type |-> action_type, params |-> params])
    /\ vcost' <= MaxPlanCost
    /\ UNCHANGED <<pvars, hvars, svars, ovars, pc>>

\* An objective with goals in two modes: one rover at waypoint 1 of the
\* "line" map, from where it sees the objective and the lander, with a
\* calibrated camera that supports colour and high_res and with the energy
\* that the shortest plan costs.
TwoModes ==
    [num_rovers |-> 1, num_modes |-> 3, recharges |-> 0, store_of |-> <<<<0, 0>>>>, map |-> "line", position |-> <<1>>, energy |-> <<16>>,
     in_sun |-> {}, unavailable |-> {}, isolated |-> FALSE, soil_only |-> FALSE,
     imaging |-> [modes_supported |-> {0, 1}, calibrated |-> 1, visible_from |-> {1}],
     full |-> 0,
     goal |-> [communicated_soil_data |-> {}, communicated_rock_data |-> {},
               communicated_image_data |-> {<<0, 0>>, <<0, 1>>}]]

\* Two rovers that stand together at waypoint 1 with energy 20 each, with
\* the soil and the rock of waypoint 1 both to communicate: every task has a
\* candidate for either rover, of equal cost.
TwoRoversTied ==
    [num_rovers |-> 2, num_modes |-> 3, recharges |-> 0, store_of |-> <<<<0, 0>>, <<1, 1>>>>, map |-> "line", position |-> <<1, 1>>,
     energy |-> <<20, 20>>, in_sun |-> {1}, unavailable |-> {}, isolated |-> FALSE,
     soil_only |-> FALSE, imaging |-> OneMode, full |-> 0,
     goal |-> [communicated_soil_data |-> {1}, communicated_rock_data |-> {1},
               communicated_image_data |-> {}]]

\* One rover on the "line" map, two rovers of which the one at the sample
\* has run out of energy, and the instance with goals in two modes.
WalkProblems ==
    { [num_rovers |-> 1, num_modes |-> 3, recharges |-> 0, store_of |-> <<<<0, 0>>>>, map |-> "line", position |-> <<0>>, energy |-> <<e>>,
       in_sun |-> sun, unavailable |-> {}, isolated |-> FALSE, soil_only |-> FALSE,
       imaging |-> OneMode,
       full |-> 0, goal |-> g] :
        e \in {10, 20}, sun \in {{}, {1}},
        g \in { gg \in Goals : 3 \notin gg.communicated_soil_data } }
    \cup { [num_rovers |-> 2, num_modes |-> 3, recharges |-> 0, store_of |-> <<<<0, 0>>, <<1, 1>>>>, map |-> "line", position |-> <<0, 1>>, energy |-> <<20, e>>,
            in_sun |-> {1}, unavailable |-> {}, isolated |-> FALSE, soil_only |-> FALSE,
            imaging |-> OneMode,
            full |-> 0, goal |-> g] :
              e \in {0, 20},
              g \in { gg \in Goals : /\ gg.communicated_soil_data = {1}
                                     /\ gg.communicated_rock_data = {}
                                     /\ gg.communicated_image_data = {} } }
    \cup { TwoModes }
    \cup { TwoRoversTied }

InitWalk == InitOf(WalkProblems)

NextWalk ==
    \/ initialize_search
    \/ SearchFound
    \/ SearchExpand
    \/ SearchExhausted
    \/ MainSolution
    \/ MainNoSolution
    \/ VerifyOther
    \/ VerifyOtherLine

SpecWalk == InitWalk /\ [][NextWalk]_vars

\* ---------------------------------------------------------------------
\* The verifier on any plan file, applicable or not
\* ---------------------------------------------------------------------
\* A problem whose only declared mode is low_res: num_modes counts the one
\* declaration while get_mode_index gives low_res the index 2.  One rover
\* at waypoint 1 of the "line" map with a camera that supports low_res, and
\* the goal of a low_res image of the objective.
LowResOnly ==
    [num_rovers |-> 1, num_modes |-> 1, recharges |-> 0, store_of |-> <<<<0, 0>>>>, map |-> "line", position |-> <<1>>,
     energy |-> <<20>>,
     in_sun |-> {}, unavailable |-> {}, isolated |-> FALSE, soil_only |-> FALSE,
     imaging |-> [modes_supported |-> {2}, calibrated |-> 0, visible_from |-> {1}],
     full |-> 0,
     goal |-> [communicated_soil_data |-> {}, communicated_rock_data |-> {},
               communicated_image_data |-> {<<0, 2>>}]]

\* Two rovers on the "line" map, each with its own store, with goals for
\* the soil and the rock of waypoint 1 and for an image: the second rover
\* short of energy, or not available, or the first rover unable to drive;
\* and the problem that declares low_res only.
\* A goal that no state satisfies: the soil data of waypoint 0, where there
\* is no soil sample.  One rover on the "line" map at waypoint 0, which is
\* in sun and from where the rover sees the objective, with energy 0 and a
\* calibrated camera.
NoGoalReachable ==
    [num_rovers |-> 1, num_modes |-> 3, recharges |-> 0, store_of |-> <<<<0, 0>>>>,
     map |-> "line", position |-> <<0>>, energy |-> <<0>>, in_sun |-> {0},
     unavailable |-> {}, isolated |-> FALSE, soil_only |-> FALSE,
     imaging |-> [OneMode EXCEPT !.calibrated = 1], full |-> 0,
     goal |-> [communicated_soil_data |-> {0}, communicated_rock_data |-> {},
               communicated_image_data |-> {}]]

ApplyProblems ==
    { [num_rovers |-> 2, num_modes |-> 3, recharges |-> 0, store_of |-> <<<<0, 0>>, <<1, 1>>>>, map |-> "line", position |-> <<0, 1>>, energy |-> <<20, e>>,
       in_sun |-> {1}, unavailable |-> IF e = 7 THEN {} ELSE {1}, isolated |-> FALSE,
       soil_only |-> FALSE,
       imaging |-> OneMode, full |-> 0,
       goal |-> [communicated_soil_data |-> {1}, communicated_rock_data |-> {1},
                 communicated_image_data |-> {<<0, 1>>}]] :
        e \in {7, 20} }
    \cup { [num_rovers |-> 2, num_modes |-> 3, recharges |-> 0, store_of |-> <<<<0, 0>>, <<1, 1>>>>, map |-> "line", position |-> <<0, 1>>, energy |-> <<20, 20>>,
             in_sun |-> {1}, unavailable |-> {}, isolated |-> TRUE, soil_only |-> FALSE,
             imaging |-> OneMode, full |-> 0,
             goal |-> [communicated_soil_data |-> {1}, communicated_rock_data |-> {1},
                       communicated_image_data |-> {<<0, 1>>}]] }
    \cup { LowResOnly, NoGoalReachable }

InitApply == InitOf(ApplyProblems)

\* The verifier is started on the problem and on some plan file; the
\* planner has not run.
VerifyAny ==
    /\ pc = "main"
    /\ vstate = NoState
    /\ vexit = -2
    /\ vstate' = initial_state
    /\ UNCHANGED <<pvars, hvars, svars, ovars, vnext, vline, vexit, vcost, pc>>

\* The next line of that file is an action line whose tokens parse to an
\* action over the declared objects.
VerifyAnyLine ==
    /\ vstate # NoState
    /\ vexit = -2
    /\ vline < MaxPlanLines
    /\ vline' = vline + 1
    /\ \E action_type \in 0 .. 9 :
          \E params \in ParamsOf(action_type) :
             VerifyCall([action_type |-> action_type, params |-> params])
    /\ vcost' <= MaxPlanCost
    /\ UNCHANGED <<pvars, hvars, svars, ovars, pc>>

NextApply ==
    \/ VerifyAny
    \/ VerifyAnyLine

SpecApply == InitApply /\ [][NextApply]_vars

\* ---------------------------------------------------------------------
\* minheap.h on its own: any sequence of insert_node and extract_min
\* ---------------------------------------------------------------------
\* The capacity the heap is created with (the planner creates it with
\* 1000), the number of insert_node calls followed and the largest f.
HeapCapacity == 2

MaxInserts == 5

MaxKey == 2

InitHeap == InitOf({NavigateThenSample})

\* frontier = createMinHeap(capacity)
HeapCreate ==
    /\ pc = "main"
    /\ frontier' = createMinHeap(HeapCapacity)
    /\ pc' = "heap"
    /\ UNCHANGED <<pvars, hvars, dist, nodes, state_set, solution_node, total_extracts,
                   ovars, vvars>>

\* insert_node(frontier, f, node) with a node that is not in the heap.
HeapInsert ==
    /\ pc = "heap"
    /\ Len(heap_history.inserted) < MaxInserts
    /\ \E f \in 0 .. MaxKey :
          LET node == Len(heap_history.inserted) + 1
          IN  /\ frontier' = insert_node(frontier, f, node)
              /\ heap_history' = [heap_history EXCEPT
                                     !.inserted = Append(@, [f |-> f, node |-> node])]
    /\ UNCHANGED <<pvars, earlier_run, store_of, dist, nodes, state_set, solution_node,
                   total_extracts, ovars, vvars, pc>>

\* extract_min(frontier) on a heap that is not empty.
HeapExtract ==
    /\ pc = "heap"
    /\ ~is_empty_heap(frontier)
    /\ LET ex == extract_min(frontier)
       IN  /\ frontier' = ex.heap
           /\ heap_history' = [heap_history EXCEPT
                                  !.extracted = Append(@, ex.root),
                                  !.inserts_before = Append(@, Len(heap_history.inserted))]
    /\ UNCHANGED <<pvars, earlier_run, store_of, dist, nodes, state_set, solution_node,
                   total_extracts, ovars, vvars, pc>>

NextHeap ==
    \/ HeapCreate
    \/ HeapInsert
    \/ HeapExtract

SpecHeap == InitHeap /\ [][NextHeap]_vars

\* ---------------------------------------------------------------------
\* A search that runs until the frontier is empty
\* ---------------------------------------------------------------------
MaxExtractsLong == 210

\* The instance with goals in two modes, with a camera that is not
\* calibrated and the energy that the shortest plan then costs: calibrate,
\* take_image, calibrate, take_image and two communicate_image_data, 18.
TwoModesUncalibrated ==
    [TwoModes EXCEPT !.energy = <<18>>, !.imaging.calibrated = 0]

InitExhaust == InitOf({TwoModesUncalibrated})

\* One iteration of the loop of search that expands its node, in a run
\* that is followed for up to MaxExtractsLong iterations.
SearchExpandLong ==
    /\ pc = "search"
    /\ ~is_empty_heap(frontier)
    /\ total_extracts < MaxExtractsLong
    /\ LET ex == extract_min(frontier)
           acc == find_children([nodes |-> nodes, state_set |-> state_set,
                                 frontier |-> ex.heap], ex.root.node)
       IN  /\ ~is_solution(nodes[ex.root.node].currState)
           /\ nodes' = acc.nodes
           /\ state_set' = acc.state_set
           /\ frontier' = acc.frontier
    /\ total_extracts' = total_extracts + 1
    /\ UNCHANGED <<pvars, hvars, dist, solution_node, ovars, vvars, pc>>

NextExhaust ==
    \/ initialize_search
    \/ SearchFound
    \/ SearchExpandLong
    \/ SearchExhausted
    \/ MainSolution
    \/ MainNoSolution
    \/ VerifyOther
    \/ VerifyOtherLine

SpecExhaust == InitExhaust /\ [][NextExhaust]_vars

\* ---------------------------------------------------------------------
\* The planner run twice on one problem
\* ---------------------------------------------------------------------
TwiceProblems ==
    { p \in Problems : /\ p.map = "line"
                       /\ p.position = <<0>>
                       /\ p.in_sun \in {{}, {1}}
                       /\ 3 \notin p.goal.communicated_soil_data }

InitTwice == InitOf(TwiceProblems)

\* The planner is started again on the same problem file: a new process,
\* whose globals are as at the start of main, and the solution file as the
\* first run left it.
RunAgain ==
    /\ pc = "done"
    /\ earlier_run.runs = 0
    /\ earlier_run' = [runs |-> 1, file |-> solution_file]
    /\ dist' = <<>>
    /\ nodes' = <<>>
    /\ frontier' = createMinHeap(0)
    /\ state_set' = {}
    /\ solution_node' = 0
    /\ total_extracts' = 0
    /\ solution_length' = 0
    /\ total_recharges' = 0
    /\ total_energy' = 0
    /\ solution' = <<>>
    /\ exit_code' = -2
    /\ pc' = "main"
    /\ UNCHANGED <<pvars, solution_file, vvars, heap_history, store_of>>

NextTwice ==
    \/ initialize_search
    \/ SearchFound
    \/ SearchExpand
    \/ SearchExhausted
    \/ MainSolution
    \/ MainNoSolution
    \/ RunAgain

SpecTwice == InitTwice /\ [][NextTwice]_vars

\* ---------------------------------------------------------------------
\* Properties
\* ---------------------------------------------------------------------
\* The verifier has read a plan that ends in a goal state.
PlanReachesGoal == vstate # NoState /\ is_solution(vstate)

\* C1: in astar mode the g of the node that search returns, reported as
\* total_energy, is the minimum total energy over all action sequences that
\* lead from the initial state to a goal state: no plan that the verifier
\* accepts step by step reaches a goal state for less.
AstarReturnsMinimumEnergy ==
    (pc = "done" /\ method = astar /\ solution_node # 0 /\ PlanReachesGoal)
        => total_energy <= vcost

\* C2: the heuristic is admissible: the h of a state that astar visits (here
\* the root, the initial state) is at most the total energy of any action
\* sequence from that state to a goal state.
HeuristicAdmissible ==
    (pc = "done" /\ method = astar /\ PlanReachesGoal) => nodes[1].h <= vcost

\* C3: replaying the plan that was extracted and written, action by action
\* with apply_action from the initial state, succeeds at every step, ends in
\* a state satisfying is_solution, and the energy_spent values sum up to
\* the reported total_energy.
ReplayOfPlanSucceeds ==
    /\ vexit # -1
    /\ vexit = 0 => (is_solution(vstate) /\ vcost = total_energy
                     /\ vline = solution_length + 2)

\* C3 witness: the replay of a plan of at least four actions, one of them a
\* recharge, has ended with success.
ReplayOfPlanSucceedsWitness ==
    vexit = 0 /\ solution_length >= 4 /\ total_recharges >= 1 /\ vcost >= 15

\* C4: a node that search returns as a solution satisfies is_solution.
ReturnedNodeIsSolution ==
    solution_node # 0 => is_solution(nodes[solution_node].currState)

\* C4 witness: search has returned a node that is not the root.
ReturnedNodeIsSolutionWitness ==
    pc = "found" /\ solution_node # 0 /\ nodes[solution_node].depth >= 3

\* C5: in every state produced by a sequence of successful apply_action
\* calls from a valid initial state, every rover's energy is at least 0.
EnergyNeverNegative ==
    /\ vstate # NoState => \A r \in Idx(num_rovers) : vstate.rovers[r].energy >= 0
    /\ \A n \in DOMAIN nodes :
          \A r \in Idx(num_rovers) : nodes[n].currState.rovers[r].energy >= 0

\* C5 witness: after at least two applied actions a rover is left with less
\* energy than any action but recharge and drop costs.
EnergyNeverNegativeWitness ==
    /\ vstate # NoState
    /\ vline >= 2
    /\ vcost >= 16
    /\ \E r \in Idx(num_rovers) : vstate.rovers[r].energy = 0

\* The energy an action of the given type costs.
ActionCost(action_type) ==
    CASE action_type = 0 -> 8
      [] action_type = 1 -> 0
      [] action_type = 2 -> 3
      [] action_type = 3 -> 5
      [] action_type = 4 -> 0
      [] action_type = 5 -> 2
      [] action_type = 6 -> 1
      [] action_type = 7 -> 4
      [] action_type = 8 -> 4
      [] OTHER -> 6

\* The sum of the costs of the actions on the parent chain of node n.
RECURSIVE PathCost(_)
PathCost(n) ==
    IF nodes[n].parent = 0 THEN 0
    ELSE PathCost(nodes[n].parent) + ActionCost(nodes[n].action_taken.action_type)

\* The number of parent links from node n to the root.
RECURSIVE PathLength(_)
PathLength(n) == IF nodes[n].parent = 0 THEN 0 ELSE 1 + PathLength(nodes[n].parent)

\* The ancestor of node n that is k parent links away.
RECURSIVE Ancestor(_, _)
Ancestor(n, k) == IF k = 0 THEN n ELSE Ancestor(nodes[n].parent, k - 1)

\* C6: the g of every node the search creates is the sum of the energy
\* costs of the actions on the parent chain from the root to the node.
GIsPathCost == \A n \in DOMAIN nodes : nodes[n].g = PathCost(n)

\* C6 witness: a node three or more actions away from the root, reached
\* with actions of different costs.
GIsPathCostWitness ==
    \E n \in DOMAIN nodes :
        /\ nodes[n].depth >= 3
        /\ nodes[n].g >= 15
        /\ nodes[n].action_taken.action_type # nodes[nodes[n].parent].action_taken.action_type

\* C7: the depth of every node the search creates is the number of parent
\* links from the root to it, and extract_solution fills exactly the plan
\* positions 0..depth-1, in root-to-solution order.
DepthIsPathLength ==
    /\ \A n \in DOMAIN nodes : nodes[n].depth = PathLength(n)
    /\ (pc = "done" /\ solution_node # 0) =>
          /\ solution_length = nodes[solution_node].depth
          /\ Len(solution) = solution_length
          /\ \A i \in 1 .. solution_length :
                LET node == nodes[Ancestor(solution_node, solution_length - i)]
                IN  /\ solution[i] # NoAction
                    /\ solution[i].action_type = node.action_taken.action_type
                    /\ solution[i].param_names = node.action_taken.param_names
                    /\ solution[i].h = node.h
                    /\ solution[i].f = node.f
                    /\ node.depth = i

\* C7 witness: a plan of four or more actions has been extracted.
DepthIsPathLengthWitness ==
    pc = "done" /\ solution_node # 0 /\ solution_length >= 4 /\ Len(solution) >= 4

\* The goal-table entries against the communicated fields of a state; the
\* fields of an object that is not declared are as the parser's memset
\* left them.
GoalTablesCommunicated(s) ==
    /\ \A wp \in goal.communicated_soil_data :
          wp \in DOMAIN s.waypoints /\ s.waypoints[wp].communicated_soil # 0
    /\ \A wp \in goal.communicated_rock_data :
          wp \in DOMAIN s.waypoints /\ s.waypoints[wp].communicated_rock # 0
    /\ \A om \in goal.communicated_image_data :
          om[1] \in DOMAIN s.objectives /\ Bit(s.objectives[om[1]].communicated_image, om[2])

\* C8: is_solution(state) is true if and only if every entry set in the
\* three goal tables, over all indices the tables can hold, is also set in
\* the corresponding communicated field of the state.
IsSolutionIffGoalTables ==
    \A n \in DOMAIN nodes :
        is_solution(nodes[n].currState) <=> GoalTablesCommunicated(nodes[n].currState)

\* C9: the heuristic returns 0 on every goal state and a non-negative
\* value on every non-goal state.
HeuristicZeroOnGoals ==
    \A n \in DOMAIN nodes :
        ~nodes[n].freed =>
            /\ nodes[n].h >= 0
            /\ is_solution(nodes[n].currState) => nodes[n].h = 0

\* C9 witness: the heuristic was called on a goal state and on a state
\* with a positive estimate.
HeuristicZeroOnGoalsWitness ==
    /\ \E n \in DOMAIN nodes :
          ~nodes[n].freed /\ nodes[n].depth >= 1 /\ is_solution(nodes[n].currState)
          /\ nodes[n].h = 0
    /\ \E n \in DOMAIN nodes : ~nodes[n].freed /\ nodes[n].h > 0

\* C10: when the frontier empties without a goal node being popped, the
\* planner exits with a non-zero exit code and writes nothing to the
\* solution file.
NoSolutionExitsNonZero ==
    (pc = "done" /\ solution_node = 0) => (exit_code # 0 /\ solution_file = <<>>)

\* The planner has finished on the instance p.
FinishedOn(p) ==
    /\ pc = "done"
    /\ initial_state = ProblemState(p)
    /\ goal = p.goal

\* C11: on the instance "recharge required" the planner returns the plan
\* recharge, navigate, sample_soil, communicate_soil_data, with
\* solution_length 4, total_energy 15 and total_recharges 1.
RechargeRequiredPlan ==
    FinishedOn(RechargeRequired) =>
        /\ solution_node # 0
        /\ solution_length = 4
        /\ total_energy = 15
        /\ total_recharges = 1
        /\ [i \in 1 .. Len(solution) |-> solution[i].action_type] = <<1, 0, 2, 7>>

\* The parameter words of the line that write_solution_to_file printed for
\* plan position i: what stands between the action's name and the ")".
PrintedParams(i) ==
    LET line == solution_file[i + 2]
    IN  SubSeq(line, 3, Len(line) - 3)

\* The number of explicit arguments of a communicate action.
ExplicitArgs(action_type) == IF action_type = 9 THEN 5 ELSE 4

\* C12: for every communicate_soil_data, communicate_rock_data and
\* communicate_image_data action of an extracted plan the printed parameter
\* list is the action's explicit arguments in order followed by `general`,
\* with no undefined or missing entry.
CommunicateLinesEndInGeneral ==
    (pc = "done" /\ solution_node # 0) =>
        \A i \in 1 .. solution_length :
            solution[i].action_type \in {7, 8, 9} =>
                LET k == ExplicitArgs(solution[i].action_type)
                IN  /\ \A j \in 1 .. k : solution[i].param_names[j] # Unwritten
                    /\ PrintedParams(i) =
                          SubSeq(solution[i].param_names, 1, k) \o <<Chars("general")>>

\* The problem states no goal.
NoGoals ==
    /\ goal.communicated_soil_data = {}
    /\ goal.communicated_rock_data = {}
    /\ goal.communicated_image_data = {}

\* C13: a problem with no goals produces an empty plan: the root is returned
\* at the first pop, no node is ever expanded, and the plan has length 0 and
\* total_energy 0.
NoGoalsEmptyPlan ==
    NoGoals =>
        /\ pc # "nosolution"
        /\ Len(nodes) <= 1
        /\ total_extracts <= 1
        /\ pc \in {"found", "done"} => (solution_node = 1 /\ total_extracts = 1)
        /\ pc = "done" => /\ solution_length = 0
                          /\ total_energy = 0
                          /\ solution = <<>>
                          /\ Len(solution_file) = 2

NoGoalsEmptyPlanWitness ==
    /\ NoGoals
    /\ pc = "done"
    /\ solution_node = 1
    /\ nodes[1].parent = 0
    /\ solution_file = << <<Chars("Solution"), Chars("length:"), <<"0">> >>,
                          <<Chars("Total"), Chars("recharges"), Chars("uses:"), <<"0">> >> >>

\* C14: two runs of astar on the same problem produce identical solution
\* files: the same lines, word for word, h and f values included.
SameFileOnSecondRun ==
    (pc = "done" /\ earlier_run.runs = 1 /\ method = astar) =>
        solution_file = earlier_run.file

\* C15: if a goal state is reachable from the initial state by applicable
\* actions of available rovers, search never ends with an empty frontier.
GoalReachableNeverExhausted ==
    (solution_node = 0 /\ pc \in {"nosolution", "done"}) => ~PlanReachesGoal

\* C16: two reachable states with the same fingerprint agree on is_solution.
\* The one is any state the search has generated, the other any state that a
\* sequence of applicable actions reaches.
FingerprintDecidesGoal ==
    vstate # NoState =>
        \A n \in DOMAIN nodes :
            make_state_key(nodes[n].currState) = make_state_key(vstate) =>
                (is_solution(nodes[n].currState) <=> is_solution(vstate))

\* C17: when apply_action returns 0 the caller's output state `next` is as
\* it was before the call.  The verifier leaves with -1 on such a call.
RefusedLeavesNextUntouched ==
    [][(vstate # NoState /\ vexit = -2 /\ vexit' = -1) => vnext' = vnext]_vars

\* C18: recharge(r, w) applies exactly when w is in sun, r is at w and
\* r.energy < 8; it adds 20 to r.energy, adds 1 to state.recharges, reports
\* energy_spent 0 and changes nothing else.
RechargeContract ==
    vstate # NoState =>
        \A params \in ParamsOf(1) :
            LET r == params[1]
                w == params[2]
                res == apply_action(vstate, 1, params)
            IN  /\ res.ret = 1 <=> /\ vstate.waypoints[w].in_sun = 1
                                   /\ vstate.rovers[r].position = w
                                   /\ vstate.rovers[r].energy < 8
                /\ res.ret = 1 =>
                       /\ res.energy_spent = 0
                       /\ res.next = [vstate EXCEPT !.rovers[r].energy = @ + 20,
                                                    !.recharges = @ + 1]

RechargeContractWitness ==
    /\ vstate # NoState
    /\ vstate.recharges >= 1
    /\ vnext = vstate
    /\ \E r \in Idx(num_rovers) : vstate.rovers[r].energy >= 20
    /\ \E params \in ParamsOf(1) :
          /\ vstate.waypoints[params[2]].in_sun = 1
          /\ vstate.rovers[params[1]].position = params[2]
          /\ apply_action(vstate, 1, params).ret = 0

\* C19: navigate(r, from, to) applies exactly when r is available,
\* r.energy >= 8, to is visible from from, r can traverse from -> to, r is at
\* from and from # to; it sets r.position to `to`, takes 8 from r.energy,
\* reports energy_spent 8 and changes nothing else.
NavigateContract ==
    vstate # NoState =>
        \A params \in ParamsOf(0) :
            LET r == params[1]
                from == params[2]
                to == params[3]
                res == apply_action(vstate, 0, params)
            IN  /\ res.ret = 1 <=> /\ vstate.rovers[r].available = 1
                                   /\ vstate.rovers[r].energy >= 8
                                   /\ to \in vstate.waypoints[from].visible_waypoints
                                   /\ <<from, to>> \in vstate.rovers[r].can_traverse
                                   /\ vstate.rovers[r].position = from
                                   /\ from # to
                /\ res.ret = 1 =>
                       /\ res.energy_spent = 8
                       /\ res.next = [vstate EXCEPT !.rovers[r].position = to,
                                                    !.rovers[r].energy = @ - 8]

NavigateContractWitness ==
    /\ vstate # NoState
    /\ vline >= 2
    /\ \E r \in Idx(num_rovers) :
          /\ vstate.rovers[r].position # initial_state.rovers[r].position
          /\ vstate.rovers[r].energy = initial_state.rovers[r].energy - 8
    /\ \E r \in Idx(num_rovers) :
          /\ vstate.rovers[r].can_traverse = {}
          /\ vstate.rovers[r].energy >= 8

\* C20: sample_soil(r, s, w) applies exactly when r is at w with energy >= 3,
\* w holds a soil sample, r is equipped for soil analysis, store s belongs to
\* r and is empty, and the soil of w is a goal that is not yet communicated;
\* it fills s, records the analysis of w on r, removes the sample from w and
\* costs 3.  sample_rock is the same on the rock fields with cost 5.  Hence
\* a store is filled by its owner only, and no action puts a sample back.
SampleContract ==
    vstate # NoState =>
        /\ \A params \in ParamsOf(2) :
              LET r == params[1]
                  st == params[2]
                  w == params[3]
                  res == apply_action(vstate, 2, params)
              IN  /\ res.ret = 1 <=> /\ vstate.rovers[r].position = w
                                     /\ vstate.rovers[r].energy >= 3
                                     /\ vstate.waypoints[w].has_soil_sample = 1
                                     /\ vstate.rovers[r].equipped_soil = 1
                                     /\ vstate.stores[st].rover_id = r
                                     /\ vstate.stores[st].is_full = 0
                                     /\ w \in goal.communicated_soil_data
                                     /\ vstate.waypoints[w].communicated_soil = 0
                  /\ res.ret = 1 =>
                         /\ res.energy_spent = 3
                         /\ res.next =
                               [vstate EXCEPT !.stores[st].is_full = 1,
                                              !.rovers[r].has_soil_analysis = @ \cup {w},
                                              !.waypoints[w].has_soil_sample = 0,
                                              !.rovers[r].energy = @ - 3]
        /\ \A params \in ParamsOf(3) :
              LET r == params[1]
                  st == params[2]
                  w == params[3]
                  res == apply_action(vstate, 3, params)
              IN  /\ res.ret = 1 <=> /\ vstate.rovers[r].position = w
                                     /\ vstate.rovers[r].energy >= 5
                                     /\ vstate.waypoints[w].has_rock_sample = 1
                                     /\ vstate.rovers[r].equipped_rock = 1
                                     /\ vstate.stores[st].rover_id = r
                                     /\ vstate.stores[st].is_full = 0
                                     /\ w \in goal.communicated_rock_data
                                     /\ vstate.waypoints[w].communicated_rock = 0
                  /\ res.ret = 1 =>
                         /\ res.energy_spent = 5
                         /\ res.next =
                               [vstate EXCEPT !.stores[st].is_full = 1,
                                              !.rovers[r].has_rock_analysis = @ \cup {w},
                                              !.waypoints[w].has_rock_sample = 0,
                                              !.rovers[r].energy = @ - 5]
        /\ \A action_type \in 0 .. 9 :
              \A params \in ParamsOf(action_type) :
                  LET res == apply_action(vstate, action_type, params)
                  IN  res.ret = 1 =>
                         /\ \A st \in Idx(num_stores) :
                               (vstate.stores[st].is_full = 0 /\ res.next.stores[st].is_full = 1)
                                   => /\ action_type \in {2, 3}
                                      /\ params[1] = vstate.stores[st].rover_id
                                      /\ params[2] = st
                         /\ \A w \in Idx(num_waypoints) :
                               /\ res.next.waypoints[w].has_soil_sample
                                     <= vstate.waypoints[w].has_soil_sample
                               /\ res.next.waypoints[w].has_rock_sample
                                     <= vstate.waypoints[w].has_rock_sample

\* Both rovers have filled their stores, one with the soil and one with the
\* rock of waypoint 1, and neither can fill the store of the other.
SampleContractWitness ==
    /\ vstate # NoState
    /\ \A st \in Idx(num_stores) : vstate.stores[st].is_full = 1
    /\ \E r1, r2 \in Idx(num_rovers) :
          /\ r1 # r2
          /\ vstate.rovers[r1].has_soil_analysis = {1}
          /\ vstate.rovers[r2].has_rock_analysis = {1}
          /\ vstate.rovers[r1].has_rock_analysis = {}
          /\ vstate.rovers[r1].energy = initial_state.rovers[r1].energy - 3
    /\ vstate.waypoints[1].has_soil_sample = 0
    /\ vstate.waypoints[1].has_rock_sample = 0

\* C21: a camera's calibrated flag goes from 0 to 1 only by a calibrate on
\* that camera and from 1 to 0 only by a take_image on that camera;
\* take_image applies only on a calibrated camera and leaves it
\* uncalibrated, so that a second take_image on the camera needs a
\* calibrate in between.
CalibratedFlagContract ==
    vstate # NoState =>
        \A action_type \in 0 .. 9 :
            \A params \in ParamsOf(action_type) :
                LET res == apply_action(vstate, action_type, params)
                IN  res.ret = 1 =>
                       /\ \A c \in Idx(num_cameras) :
                             /\ (/\ vstate.cameras[c].calibrated = 0
                                 /\ res.next.cameras[c].calibrated = 1)
                                    => (action_type = 5 /\ params[2] = c)
                             /\ (/\ vstate.cameras[c].calibrated = 1
                                 /\ res.next.cameras[c].calibrated = 0)
                                    => (action_type = 6 /\ params[4] = c)
                       /\ action_type = 6 =>
                             /\ vstate.cameras[params[4]].calibrated = 1
                             /\ res.next.cameras[params[4]].calibrated = 0
                             /\ apply_action(res.next, 6, params).ret = 0

\* The camera was calibrated and has taken the image: it is uncalibrated
\* again, no take_image applies and a calibrate does.
CalibratedFlagContractWitness ==
    /\ vstate # NoState
    /\ vline >= 2
    /\ \E c \in Idx(num_cameras) :
          /\ initial_state.cameras[c].calibrated = 0
          /\ vstate.cameras[c].calibrated = 0
          /\ vstate.rovers[vstate.cameras[c].rover_id].have_image # {}
          /\ \A params \in ParamsOf(6) : apply_action(vstate, 6, params).ret = 0
          /\ \E params \in ParamsOf(5) :
                /\ params[2] = c
                /\ apply_action(vstate, 5, params).ret = 1

\* The rover r can send to the lander in state s at a cost of `cost`: it is
\* available, the lander's waypoint is visible from where it stands, the
\* channel is free and it has the energy.
CanSend(s, r, cost) ==
    /\ s.rovers[r].available = 1
    /\ s.lander.lander_position
          \in s.waypoints[s.rovers[r].position].visible_waypoints
    /\ s.lander.channel_free = 1
    /\ s.rovers[r].energy >= cost

\* C22: a communicated flag (soil of w, rock of w, image of (obj, mode))
\* becomes set only by the communicate action for that datum, by a rover
\* that holds the datum and can send (4 units, 6 for an image), the datum
\* being a goal not yet communicated; no action clears a communicated flag.
CommunicatedFlagContract ==
    vstate # NoState =>
        \A action_type \in 0 .. 9 :
            \A params \in ParamsOf(action_type) :
                LET res == apply_action(vstate, action_type, params)
                    r == params[1]
                IN  res.ret = 1 =>
                       /\ \A w \in Idx(num_waypoints) :
                             /\ res.next.waypoints[w].communicated_soil
                                   >= vstate.waypoints[w].communicated_soil
                             /\ res.next.waypoints[w].communicated_rock
                                   >= vstate.waypoints[w].communicated_rock
                             /\ res.next.waypoints[w].communicated_soil
                                   # vstate.waypoints[w].communicated_soil
                                 => /\ action_type = 7
                                    /\ params[2] = w
                                    /\ w \in vstate.rovers[r].has_soil_analysis
                                    /\ CanSend(vstate, r, 4)
                                    /\ w \in goal.communicated_soil_data
                             /\ res.next.waypoints[w].communicated_rock
                                   # vstate.waypoints[w].communicated_rock
                                 => /\ action_type = 8
                                    /\ params[2] = w
                                    /\ w \in vstate.rovers[r].has_rock_analysis
                                    /\ CanSend(vstate, r, 4)
                                    /\ w \in goal.communicated_rock_data
                       /\ \A o \in Idx(num_objectives) :
                             /\ vstate.objectives[o].communicated_image
                                   \subseteq res.next.objectives[o].communicated_image
                             /\ \A m \in res.next.objectives[o].communicated_image
                                          \ vstate.objectives[o].communicated_image :
                                    /\ action_type = 9
                                    /\ params[2] = o
                                    /\ params[3] = m
                                    /\ <<o, m>> \in vstate.rovers[r].have_image
                                    /\ CanSend(vstate, r, 6)
                                    /\ <<o, m>> \in goal.communicated_image_data

\* The soil of a waypoint has been communicated, and a rover that is not
\* available holds the rock analysis of a goal where it could send it
\* from, were it available.
CommunicatedFlagContractWitness ==
    /\ vstate # NoState
    /\ \E w \in Idx(num_waypoints) : vstate.waypoints[w].communicated_soil = 1
    /\ \E r \in Idx(num_rovers) :
          /\ vstate.rovers[r].available = 0
          /\ vstate.rovers[r].energy >= 4
          /\ vstate.lander.lander_position
                \in vstate.waypoints[vstate.rovers[r].position].visible_waypoints
          /\ \E w \in goal.communicated_rock_data :
                /\ w \in vstate.rovers[r].has_rock_analysis
                /\ vstate.waypoints[w].communicated_rock = 0

\* The fields of a State that the parser fills and that describe the
\* problem rather than the situation.
StaticPart(s) ==
    [waypoints |-> [w \in DOMAIN s.waypoints |->
                      <<s.waypoints[w].visible_waypoints, s.waypoints[w].in_sun>>],
     rovers |-> [r \in DOMAIN s.rovers |->
                      <<s.rovers[r].can_traverse, s.rovers[r].available,
                        s.rovers[r].equipped_soil, s.rovers[r].equipped_rock,
                        s.rovers[r].equipped_imaging>>],
     cameras |-> [c \in DOMAIN s.cameras |->
                      <<s.cameras[c].rover_id, s.cameras[c].calibration_targets,
                        s.cameras[c].modes_supported>>],
     stores |-> [st \in DOMAIN s.stores |-> s.stores[st].rover_id],
     objectives |-> [o \in DOMAIN s.objectives |-> s.objectives[o].visible_waypoints],
     lander |-> s.lander]

\* C23: no action changes the static part of the state: in every state of
\* the search tree, in every state the verifier reaches and in the buffer
\* next_state it is as in the initial state.
StaticPartNeverChanges ==
    /\ \A n \in DOMAIN nodes :
          StaticPart(nodes[n].currState) = StaticPart(initial_state)
    /\ vstate # NoState => StaticPart(vstate) = StaticPart(initial_state)
    /\ vnext # NoState => StaticPart(vnext) = StaticPart(initial_state)

\* The tree has grown, and the verifier has driven, sampled, taken an image
\* or communicated: every non-static kind of field differs from the
\* initial state somewhere.
StaticPartNeverChangesWitness ==
    /\ Len(nodes) >= 3
    /\ vstate # NoState
    /\ vline >= 3
    /\ \E r \in Idx(num_rovers) :
          /\ vstate.rovers[r].position # initial_state.rovers[r].position
          /\ vstate.rovers[r].energy # initial_state.rovers[r].energy
    /\ vstate.stores # initial_state.stores
    /\ vstate.waypoints # initial_state.waypoints
    /\ \E w \in Idx(num_waypoints) : vstate.waypoints[w].communicated_soil = 1

\* The ground actions that find_children attempts on state s.
Attempted(s) == { Attempts(s)[i] : i \in DOMAIN Attempts(s) }

\* C24: on every state, for every available rover, find_children attempts
\* a ground action exactly when apply_action accepts it on that state.
FindChildrenIffApplicable ==
    vstate # NoState =>
        \A attempted \in {Attempted(vstate)} :
            \A action_type \in 0 .. 9 :
                \A params \in ParamsOf(action_type) :
                    vstate.rovers[params[1]].available = 1 =>
                        ([action_type |-> action_type, params |-> params] \in attempted
                            <=> apply_action(vstate, action_type, params).ret = 1)

\* The rover of the action that made node n.
RoverOf(n) == get_object_number(nodes[n].action_taken.param_names[1])

\* The place of an action type in the body of find_children's loop over the
\* rovers: recharge, sample_soil, sample_rock, calibrate and take_image,
\* communicate_soil_data, communicate_rock_data, communicate_image_data,
\* drop, navigate.
EnumerationRank(action_type) ==
    CASE action_type = 1 -> 0
      [] action_type = 2 -> 1
      [] action_type = 3 -> 2
      [] action_type \in {5, 6} -> 3
      [] action_type = 7 -> 4
      [] action_type = 8 -> 5
      [] action_type = 9 -> 6
      [] action_type = 4 -> 7
      [] OTHER -> 8

\* C25: the successors of one parent are made rover by rover in ascending
\* rover index, and for one rover in the order recharge, sample_soil,
\* sample_rock, calibrate/take_image, communicate_soil, communicate_rock,
\* communicate_image, drop, navigate.
SuccessorsInEnumerationOrder ==
    \A a, b \in DOMAIN nodes :
        (a < b /\ nodes[a].parent # 0 /\ nodes[a].parent = nodes[b].parent) =>
            \/ RoverOf(a) < RoverOf(b)
            \/ /\ RoverOf(a) = RoverOf(b)
               /\ EnumerationRank(nodes[a].action_taken.action_type)
                     <= EnumerationRank(nodes[b].action_taken.action_type)

\* One parent has successors by two rovers, of two kinds each.
SuccessorsInEnumerationOrderWitness ==
    \E a, b, c, d \in DOMAIN nodes :
        /\ a < b /\ b < c /\ c < d
        /\ nodes[a].parent # 0
        /\ \A n \in {b, c, d} : nodes[n].parent = nodes[a].parent
        /\ RoverOf(a) = RoverOf(b)
        /\ RoverOf(c) = RoverOf(d)
        /\ RoverOf(b) # RoverOf(c)
        /\ nodes[a].action_taken.action_type # nodes[b].action_taken.action_type
        /\ nodes[c].action_taken.action_type # nodes[d].action_taken.action_type

\* The entries nodeArray[0 .. nodeSize-1] of a heap.
HeapEntries(heap) == { heap.nodeArray[i] : i \in 1 .. heap.nodeSize }

\* C26: a generated child is pushed to the frontier exactly when its
\* fingerprint is not in the closed set at that moment, and then the
\* fingerprint is in the closed set as well; a child whose fingerprint is
\* there already is discarded, the closed set and the frontier staying as
\* they were.  Stated for every call of try_add_child that find_children
\* would make on a node of the tree, in the search state as it is.
ChildPushedIffFingerprintNew ==
    pc = "search" =>
        \A acc \in {[nodes |-> nodes, state_set |-> state_set, frontier |-> frontier]} :
            \A p \in DOMAIN nodes :
                ~nodes[p].freed =>
                    \A at \in Attempted(nodes[p].currState) :
                        LET res == apply_action(nodes[p].currState, at.action_type, at.params)
                            sk == make_state_key(res.next)
                            after == try_add_child(acc, p, at.action_type, at.params,
                                                   Len(at.params))
                            child == Len(nodes) + 1
                        IN  res.ret = 1 =>
                               /\ Len(after.nodes) = child
                               /\ after.nodes[child].currState = res.next
                               /\ IF sk \in state_set
                                  THEN /\ after.nodes[child].freed
                                       /\ after.state_set = state_set
                                       /\ after.frontier = frontier
                                  ELSE /\ ~after.nodes[child].freed
                                       /\ after.state_set = state_set \cup {sk}
                                       /\ after.frontier.nodeSize = frontier.nodeSize + 1
                                       /\ HeapEntries(after.frontier) =
                                             HeapEntries(frontier)
                                                \cup {[f |-> after.nodes[child].f,
                                                       node |-> child]}

\* The search is at a point where one node of the tree has a successor
\* whose fingerprint is in the closed set and another has a successor whose
\* fingerprint is new.
ChildPushedIffFingerprintNewWitness ==
    /\ pc = "search"
    /\ state_set # {}
    /\ \E p, q \in DOMAIN nodes :
          /\ ~nodes[p].freed /\ ~nodes[q].freed
          /\ \E at \in Attempted(nodes[p].currState) :
                LET res == apply_action(nodes[p].currState, at.action_type, at.params)
                IN  res.ret = 1 /\ make_state_key(res.next) \in state_set
          /\ \E at \in Attempted(nodes[q].currState) :
                LET res == apply_action(nodes[q].currState, at.action_type, at.params)
                IN  res.ret = 1 /\ make_state_key(res.next) \notin state_set

\* C27: after initialize_search and before the first extraction the
\* frontier holds exactly the root node (state = initial state, g = 0,
\* depth = 0, f from its h) and the closed set holds the fingerprint of the
\* root's state.
RootInFrontierAndClosedSet ==
    (pc = "search" /\ total_extracts = 0) =>
        /\ Len(nodes) = 1
        /\ nodes[1].currState = initial_state
        /\ nodes[1].g = 0
        /\ nodes[1].depth = 0
        /\ nodes[1].h = heuristic(initial_state)
        /\ nodes[1].f = IF method = best THEN nodes[1].h ELSE nodes[1].g + nodes[1].h
        /\ frontier.nodeSize = 1
        /\ HeapEntries(frontier) = {[f |-> nodes[1].f, node |-> 1]}
        /\ make_state_key(nodes[1].currState) \in state_set

\* What a step does to the frontier: the entries it adds are for nodes it
\* created, live ones, the root or a child whose fingerprint it put into
\* the closed set; an extraction takes the entry of the extracted node out;
\* the nodes that exist stay as they are.
FrontierStep ==
    /\ \A e \in HeapEntries(frontier') \ HeapEntries(frontier) :
          /\ e.node > Len(nodes)
          /\ e.node <= Len(nodes')
          /\ ~nodes'[e.node].freed
          /\ \/ nodes'[e.node].parent = 0
             \/ /\ make_state_key(nodes'[e.node].currState) \in state_set'
                /\ make_state_key(nodes'[e.node].currState) \notin state_set
    /\ total_extracts' = total_extracts + 1 =>
          \A e \in HeapEntries(frontier') : e.node # frontier.nodeArray[1].node
    /\ \A n \in DOMAIN nodes : n \in DOMAIN nodes' /\ nodes'[n] = nodes[n]

\* C28: no two frontier entries refer to the same node and no node is
\* extracted more than once: an extraction removes the entry of the
\* extracted node, and every entry that a step adds is for a node created by
\* that step, either the root or a child whose fingerprint the step put
\* into the closed set.
NodePushedAndExtractedOnce ==
    /\ [](\A i, j \in 1 .. frontier.nodeSize :
              frontier.nodeArray[i].node = frontier.nodeArray[j].node => i = j)
    /\ [][FrontierStep]_vars

\* Several nodes have been extracted, several are waiting and some child
\* has been discarded.
NodePushedAndExtractedOnceWitness ==
    /\ pc = "search"
    /\ total_extracts >= 3
    /\ frontier.nodeSize >= 2
    /\ \E n \in DOMAIN nodes : nodes[n].freed

\* The entries of a sequence of heap entries.
Range(seq) == { seq[i] : i \in DOMAIN seq }

\* C29: after any sequence of insert_node and extract_min calls the heap
\* holds exactly the inserted entries that were not extracted, and
\* extract_min on a non-empty heap returns an entry whose f is at most the
\* f of every entry that stays, and removes that entry only; also when the
\* capacity was doubled on the way.
HeapReturnsMinimum ==
    pc = "heap" =>
        /\ frontier.nodeSize = Len(heap_history.inserted) - Len(heap_history.extracted)
        /\ frontier.nodeSize <= frontier.capacity
        /\ HeapEntries(frontier)
              = Range(heap_history.inserted) \ Range(heap_history.extracted)
        /\ Cardinality(HeapEntries(frontier)) = frontier.nodeSize
        /\ ~is_empty_heap(frontier) =>
              \A ex \in {extract_min(frontier)} :
                  /\ ex.root \in HeapEntries(frontier)
                  /\ \A e \in HeapEntries(ex.heap) : ex.root.f <= e.f
                  /\ HeapEntries(ex.heap) = HeapEntries(frontier) \ {ex.root}
                  /\ ex.heap.nodeSize = frontier.nodeSize - 1

\* The capacity has been doubled, entries of different f are waiting and
\* at least two entries have been extracted, not in the order they came.
HeapReturnsMinimumWitness ==
    /\ pc = "heap"
    /\ frontier.capacity >= 2 * HeapCapacity
    /\ frontier.nodeSize >= 2
    /\ \E e1, e2 \in HeapEntries(frontier) : e1.f # e2.f
    /\ Len(heap_history.extracted) >= 2
    /\ heap_history.extracted[1].node > heap_history.extracted[2].node

\* The i-th and the j-th extracted entries have the same f and the later
\* one was in the heap when the earlier one was extracted.
Tied(i, j) ==
    /\ i < j
    /\ heap_history.extracted[i].f = heap_history.extracted[j].f
    /\ heap_history.extracted[j].node <= heap_history.inserts_before[i]

\* C30: among the entries of equal f, extract_min returns them in the order
\* of insertion (FIFO) or in the reverse order of insertion (LIFO).
TiesBrokenFifoOrLifo ==
    pc = "heap" =>
        \/ \A i, j \in DOMAIN heap_history.extracted :
              Tied(i, j) => heap_history.extracted[i].node < heap_history.extracted[j].node
        \/ \A i, j \in DOMAIN heap_history.extracted :
              Tied(i, j) => heap_history.extracted[i].node > heap_history.extracted[j].node

\* The number of recharge actions on the parent chain of node n.
RECURSIVE PathRecharges(_)
PathRecharges(n) ==
    IF nodes[n].parent = 0 THEN 0
    ELSE PathRecharges(nodes[n].parent)
            + (IF nodes[n].action_taken.action_type = 1 THEN 1 ELSE 0)

\* C31: the recharges field of every node's state is the number of recharge
\* actions on the path from the root to the node, and the total_recharges
\* reported for a solution is the number of recharge actions in the plan.
RechargesCountsPlanRecharges ==
    /\ \A n \in DOMAIN nodes : nodes[n].currState.recharges = PathRecharges(n)
    /\ (pc = "done" /\ solution_node # 0) =>
          total_recharges
             = Cardinality({i \in DOMAIN solution : solution[i].action_type = 1})

\* The waypoints that rover r reaches from u over at most k edges of its
\* graph in state s: an edge x -> v when r can traverse x -> v and v is
\* visible from x.
RECURSIVE Within(_, _, _, _)
Within(s, r, u, k) ==
    IF k = 0 THEN {u}
    ELSE LET prev == Within(s, r, u, k - 1)
         IN  prev \cup { v \in Idx(num_waypoints) :
                            \E x \in prev : /\ <<x, v>> \in s.rovers[r].can_traverse
                                            /\ v \in s.waypoints[x].visible_waypoints }

\* 8 times the least number of edges of a path from u to v, INT_MAX when
\* there is no path.
PathEnergy(s, r, u, v) ==
    IF v \notin Within(s, r, u, num_waypoints - 1) THEN INT_MAX
    ELSE 8 * (CHOOSE k \in Idx(num_waypoints) :
                 /\ v \in Within(s, r, u, k)
                 /\ k > 0 => v \notin Within(s, r, u, k - 1))

\* C32: after precompute_shortest_paths, dist[r][u][v] is 8 times the least
\* number of edges of a directed path from u to v in r's graph, 0 for
\* u = v and the infinity sentinel when there is no path.
DistIsShortestPath ==
    pc = "search" =>
        \A r \in Idx(num_rovers) : \A u, v \in Idx(num_waypoints) :
            /\ dist[r][u][v] = PathEnergy(initial_state, r, u, v)
            /\ u = v => dist[r][u][v] = 0

\* A graph with a path of two edges one way and one edge the other way.
DistIsShortestPathWitness ==
    /\ pc = "search"
    /\ \E r \in Idx(num_rovers) : \E u, v \in Idx(num_waypoints) :
          /\ dist[r][u][v] = 16
          /\ dist[r][v][u] = 8
          /\ <<u, v>> \notin initial_state.rovers[r].can_traverse

\* ---------------------------------------------------------------------
\* The task part of the heuristic
\* ---------------------------------------------------------------------
\* f[0] + ... + f[n-1].
RECURSIVE SumOver(_, _)
SumOver(f, n) == IF n = 0 THEN 0 ELSE SumOver(f, n - 1) + f[n - 1]

\* The arrangements of all_costs in descending cost: what a sort with
\* compareGoalCosts may return, whatever it does with entries of equal cost.
DescendingOrders(all_costs) ==
    { [i \in DOMAIN all_costs |-> all_costs[perm[i]]] :
        perm \in { q \in Permutations(DOMAIN all_costs) :
                      \A i, j \in DOMAIN all_costs :
                          i < j => all_costs[q[i]].cost >= all_costs[q[j]].cost } }

\* C33: on every node's state, the greedy loop over the sorted candidates
\* gives every rover that has a candidate its largest candidate cost, and no
\* other rover anything, so h_tasks is the sum of these largest costs; the
\* same holds for every descending arrangement of the candidates.
TaskPartIsSumOfLargest ==
    pc = "search" =>
        \A n \in DOMAIN nodes :
            \A all_costs \in {calculate_all_goal_costs(dist, nodes[n].currState)} :
                LET start == [h_tasks |-> 0, rover_used |-> {},
                              assigned_costs |-> [r \in Idx(MAX_ROVERS) |-> 0]]
                    Of(r) == {all_costs[i].cost :
                                 i \in {j \in DOMAIN all_costs : all_costs[j].rover_id = r}}
                    largest == [r \in Idx(MAX_ROVERS) |->
                                   IF Of(r) = {} THEN 0
                                   ELSE CHOOSE c \in Of(r) : \A c2 \in Of(r) : c >= c2]
                IN  \A sorted \in {qsort(all_costs)} \cup DescendingOrders(all_costs) :
                        \A g \in {Greedy(sorted, 1, start)} :
                            /\ g.assigned_costs = largest
                            /\ g.h_tasks = SumOver(largest, MAX_ROVERS)
                            /\ g.rover_used = {r \in Idx(MAX_ROVERS) : Of(r) # {}}

\* Two rovers with candidates, one of them with two candidates of different
\* cost, and two candidates of equal cost in the list.
TaskPartIsSumOfLargestWitness ==
    /\ pc = "search"
    /\ \E n \in DOMAIN nodes :
          \E all_costs \in {calculate_all_goal_costs(dist, nodes[n].currState)} :
              /\ \E i, j \in DOMAIN all_costs :
                    /\ all_costs[i].rover_id = all_costs[j].rover_id
                    /\ all_costs[i].cost < all_costs[j].cost
              /\ \E i, j \in DOMAIN all_costs :
                    /\ i # j
                    /\ all_costs[i].cost = all_costs[j].cost
              /\ Cardinality({all_costs[i].rover_id : i \in DOMAIN all_costs}) = 2
              /\ Cardinality(DescendingOrders(all_costs)) > 1

\* ---------------------------------------------------------------------
\* The energy part of the heuristic
\* ---------------------------------------------------------------------
\* The rovers whose assigned task costs more than they have.
InDeficit(state, assigned_costs) ==
    {r \in Idx(num_rovers) : /\ assigned_costs[r] # 0
                              /\ assigned_costs[r] > state.rovers[r].energy}

\* The finite distances of rover r from where it stands to a waypoint in sun.
SunDistances(state, r) ==
    {dist[r][state.rovers[r].position][wp] :
        wp \in {w \in Idx(num_waypoints) : state.waypoints[w].in_sun # 0}} \ {INT_MAX}

\* C34: on every node's state that is no goal state, each rover in deficit
\* adds its least distance to a waypoint in sun (0 when it stands in sun)
\* to the heuristic, the other rovers add nothing, and the heuristic is
\* INT_MAX when a rover in deficit has no waypoint in sun within reach.
EnergyPartAddsNearestSun ==
    pc = "search" =>
        \A n \in DOMAIN nodes :
            \A state \in {nodes[n].currState} :
                \A all_costs \in {calculate_all_goal_costs(dist, state)} :
                    \A g \in {Greedy(qsort(all_costs), 1,
                                      [h_tasks |-> 0, rover_used |-> {},
                                       assigned_costs |-> [r \in Idx(MAX_ROVERS) |-> 0]])} :
                        LET deficit == InDeficit(state, g.assigned_costs)
                            Least(S) == CHOOSE x \in S : \A y \in S : x <= y
                            added == [r \in Idx(num_rovers) |->
                                         IF r \in deficit THEN Least(SunDistances(state, r))
                                         ELSE 0]
                            h_energy == calculate_energy_cost_for_assignment(
                                            dist, state, g.assigned_costs)
                        IN  IF \E r \in deficit : SunDistances(state, r) = {}
                            THEN /\ h_energy = INT_MAX
                                 /\ heuristic(state) = INT_MAX
                            ELSE /\ h_energy = SumOver(added, num_rovers)
                                 /\ \A r \in deficit :
                                       state.waypoints[state.rovers[r].position].in_sun # 0
                                           => added[r] = 0
                                 /\ Len(all_costs) > 0 =>
                                       heuristic(state) = g.h_tasks + h_energy

\* A rover in deficit away from the sun with a waypoint in sun within reach,
\* next to a rover that has a task and the energy for it.
EnergyPartAddsNearestSunWitness ==
    /\ pc = "search"
    /\ \E n \in DOMAIN nodes :
          \E state \in {nodes[n].currState} :
              \E g \in {Greedy(qsort(calculate_all_goal_costs(dist, state)), 1,
                                [h_tasks |-> 0, rover_used |-> {},
                                 assigned_costs |-> [r \in Idx(MAX_ROVERS) |-> 0]])} :
                  /\ \E r \in InDeficit(state, g.assigned_costs) :
                        /\ SunDistances(state, r) # {}
                        /\ 0 \notin SunDistances(state, r)
                  /\ \E r \in Idx(num_rovers) \ InDeficit(state, g.assigned_costs) :
                        g.assigned_costs[r] # 0

\* ---------------------------------------------------------------------
\* find_nearest_comm_point
\* ---------------------------------------------------------------------
\* The waypoints that see the lander and that rover can reach from from_wp.
CommPoints(rover, from_wp) ==
    {wp \in Idx(num_waypoints) :
        /\ Bit(initial_state.waypoints[wp].visible_waypoints,
               initial_state.lander.lander_position)
        /\ dist[rover][from_wp][wp] # INT_MAX}

\* C35: find_nearest_comm_point gives from_wp back when from_wp sees the
\* lander, otherwise a nearest waypoint among those that see the lander and
\* are within reach, and -1 exactly when there is none.
NearestCommPointContract ==
    pc = "search" =>
        \A rover \in Idx(num_rovers) : \A from_wp \in Idx(num_waypoints) :
            \A best_wp \in {find_nearest_comm_point(dist, rover, from_wp, initial_state)} :
                IF Bit(initial_state.waypoints[from_wp].visible_waypoints,
                       initial_state.lander.lander_position)
                THEN best_wp = from_wp
                ELSE /\ best_wp = -1 <=> CommPoints(rover, from_wp) = {}
                     /\ best_wp # -1 =>
                           /\ best_wp \in CommPoints(rover, from_wp)
                           /\ \A wp \in CommPoints(rover, from_wp) :
                                 dist[rover][from_wp][best_wp] <= dist[rover][from_wp][wp]

\* From a waypoint that does not see the lander, two waypoints that see it
\* are within reach at different distances, and the nearer one is not the
\* first of the scan.
NearestCommPointContractWitness ==
    /\ pc = "search"
    /\ \E rover \in Idx(num_rovers) : \E from_wp \in Idx(num_waypoints) :
          /\ ~Bit(initial_state.waypoints[from_wp].visible_waypoints,
                  initial_state.lander.lander_position)
          /\ \E a, b \in CommPoints(rover, from_wp) :
                /\ a < b
                /\ dist[rover][from_wp][a] > dist[rover][from_wp][b]

\* ---------------------------------------------------------------------
\* Stores and their rovers in the problem file
\* ---------------------------------------------------------------------
\* C36: no problem that parse_pddl_file hands to main says of one store that
\* it is the store of two different rovers.
SharedStoreRejected ==
    \A i, j \in DOMAIN store_of :
        store_of[i][1] = store_of[j][1] => store_of[i][2] = store_of[j][2]

\* ---------------------------------------------------------------------
\* The lifetime of tree nodes
\* ---------------------------------------------------------------------
\* What a step does to the nodes: it frees none of the nodes it found, and
\* of the nodes it creates it frees those it does not hand to the frontier,
\* each of them a child whose fingerprint is in the closed set.
NodeLifetimeStep ==
    /\ \A n \in DOMAIN nodes : n \in DOMAIN nodes' /\ nodes'[n].freed = nodes[n].freed
    /\ \A n \in DOMAIN nodes' \ DOMAIN nodes :
          /\ nodes'[n].freed <=> n \notin {e.node : e \in HeapEntries(frontier')}
          /\ nodes'[n].freed =>
                /\ nodes'[n].parent # 0
                /\ make_state_key(nodes'[n].currState) \in state_set'

\* C37: a node is freed only by the step that creates it, and only when
\* that step does not push it; no entry of the frontier is for a freed node,
\* and when search has returned a solution node every node on its parent
\* chain is still allocated.
PushedNodesStayAllocated ==
    /\ [](pc = "search" => \A e \in HeapEntries(frontier) : ~nodes[e.node].freed)
    /\ [](pc = "found" =>
             \A k \in 0 .. nodes[solution_node].depth :
                 ~nodes[Ancestor(solution_node, k)].freed)
    /\ [][NodeLifetimeStep]_vars

\* search has returned a node three parent links deep while duplicates
\* were freed, one of them a sibling of a node on the chain.
PushedNodesStayAllocatedWitness ==
    /\ pc = "found"
    /\ nodes[solution_node].depth >= 3
    /\ \E n \in DOMAIN nodes :
          /\ nodes[n].freed
          /\ \E k \in 1 .. nodes[solution_node].depth :
                nodes[n].parent = Ancestor(solution_node, k)

\* ---------------------------------------------------------------------
\* The states within reach when no goal state is
\* ---------------------------------------------------------------------
\* The goal asks for the soil data of a waypoint that has no soil sample
\* and whose analysis nobody holds: no action brings either about.
GoalOutOfReach ==
    \E w \in goal.communicated_soil_data :
        /\ initial_state.waypoints[w].has_soil_sample = 0
        /\ initial_state.waypoints[w].communicated_soil = 0
        /\ \A r \in Idx(num_rovers) : ~Bit(initial_state.rovers[r].has_soil_analysis, w)

\* C38: when no goal state is within reach, the states within reach of
\* the initial state have finitely many fingerprints; so no sequence of
\* applicable actions leads from the initial state to a state that differs
\* from it by a larger recharges only, since the sequence would apply again
\* there, and again, to a new value of recharges and a new fingerprint
\* every time.
NoGoalFingerprintsFinite ==
    (GoalOutOfReach /\ vstate # NoState /\ vline > 0 /\ vexit = -2) =>
        /\ ~is_solution(vstate)
        /\ [vstate EXCEPT !.recharges = initial_state.recharges] # initial_state

\* ---------------------------------------------------------------------
\* Energy along a path
\* ---------------------------------------------------------------------
\* The energy of all rovers of state s together.
TotalEnergy(s) == SumOver([r \in Idx(num_rovers) |-> s.rovers[r].energy], num_rovers)

\* C39: in every node the rovers' energy adds up to what they had in the
\* initial state, less the node's g, plus 20 for every recharge on the
\* path from the root to the node.
EnergyConserved ==
    \A n \in DOMAIN nodes :
        TotalEnergy(nodes[n].currState)
            = TotalEnergy(initial_state) - nodes[n].g + 20 * PathRecharges(n)

\* A node of a two-rover problem with a recharge and paid actions on its
\* path, where both rovers' energy differs from what they started with.
EnergyConservedWitness ==
    \E n \in DOMAIN nodes :
        /\ num_rovers = 2
        /\ PathRecharges(n) >= 1
        /\ nodes[n].g >= 8
        /\ \A r \in Idx(num_rovers) :
              nodes[n].currState.rovers[r].energy # initial_state.rovers[r].energy

\* ---------------------------------------------------------------------
\* Fingerprints and path cost
\* ---------------------------------------------------------------------
\* C40: two nodes of one search whose states have the same fingerprint
\* have the same g, the nodes that add_child discarded included.
SameFingerprintSameG ==
    pc = "search" =>
        \A key \in {[n \in DOMAIN nodes |-> make_state_key(nodes[n].currState)]} :
            \A n, m \in DOMAIN nodes :
                (n < m /\ key[n] = key[m]) => nodes[n].g = nodes[m].g

\* A discarded node and a kept node with the same fingerprint that were
\* reached over different parents at a cost above 0, and a node reached
\* over a recharge.
SameFingerprintSameGWitness ==
    /\ pc = "search"
    /\ \E n, m \in DOMAIN nodes :
          /\ n < m
          /\ ~nodes[n].freed
          /\ nodes[m].freed
          /\ nodes[n].parent # nodes[m].parent
          /\ nodes[n].g > 0
          /\ make_state_key(nodes[n].currState) = make_state_key(nodes[m].currState)
    /\ \E n \in DOMAIN nodes : PathRecharges(n) >= 1


====
